---- MODULE Spec2Model ----
(***************************************************************************)
(* A model of the multi-fidelity active-learning code base:                *)
(*   - the floating point scalars and tensors the DataHandler computes on, *)
(*   - DataHandler (dataset.py): target factor, initialise_dataset,        *)
(*     preprocess, get_statistics, normalize, denormalize, update_dataset, *)
(*   - the proxies of proxy/ucb.py and proxy/acquisition.py on top of the  *)
(*     regressor's checkpoint loading (regressor/regressor.py) and the     *)
(*     logger's checkpoint writing (utils/logger.py).                      *)
(*                                                                         *)
(* Floating point numbers are modelled as exact rationals extended with    *)
(* NaN, the two infinities and the negative zero: rounding is not          *)
(* modelled, the special values are.                                       *)
(***************************************************************************)
EXTENDS Integers, Sequences, FiniteSets, TLC

(***************************************************************************)
(* Bounds of the model.                                                    *)
(***************************************************************************)
\* largest number of rows the environment's initial dataset holds
MaxInit == 2
\* largest number of (state, energy) items of one update_dataset call
MaxNew == 2
\* largest number of rows ever handed to one DataHandler
MaxRows == 4
\* longest tensor the pure functions are applied to
MaxLen == 3
\* largest round context (the AL iteration) of the logger
MaxContext == 2
\* largest epoch a checkpoint is saved for
MaxEpoch == 1
\* largest number of times one regressor initialises its model
MaxModels == 2
\* the most epochs of a fit whose convergence is followed, and the longest
\* history of held-out errors
MaxHist == 4
\* the most epochs of a fit of the SVGP surrogate
MaxSvgpEpochs == 6
\* the largest eval_period of the SVGP surrogate
MaxEvalPeriod == 2
\* the largest patience of the SVGP surrogate
MaxPatience == 2

(***************************************************************************)
(* Floating point scalars: [k, n, d] with k the class of the value.        *)
(*   "num"     the rational n/d, d > 0, in lowest terms (+0.0 is 0/1)      *)
(*   "negzero" -0.0                                                        *)
(*   "inf"     the infinity of sign n                                      *)
(*   "nan"     not a number                                                *)
(*   "sqrt"    the square root of the positive rational n/d                *)
(***************************************************************************)
Abs(n) == IF n < 0 THEN -n ELSE n

RECURSIVE Gcd(_, _)
Gcd(a, b) == IF b = 0 THEN a ELSE Gcd(b, a % b)

Num(n, d) ==
    LET g == Gcd(Abs(n), Abs(d))
        s == IF d < 0 THEN -1 ELSE 1
    IN  [k |-> "num", n |-> (s * n) \div g, d |-> (s * d) \div g]

OfInt(n) == Num(n, 1)

NaN == [k |-> "nan", n |-> 0, d |-> 1]

NegZero == [k |-> "negzero", n |-> 0, d |-> 1]

Inf(s) == [k |-> "inf", n |-> s, d |-> 1]

IsNaN(x) == x.k = "nan"

IsInf(x) == x.k = "inf"

IsZero(x) == x.k = "negzero" \/ (x.k = "num" /\ x.n = 0)

Sgn(x) == IF x.k = "negzero" \/ x.n < 0 THEN -1 ELSE 1

Zero(s) == IF s < 0 THEN NegZero ELSE OfInt(0)

FNeg(x) ==
    IF IsNaN(x) THEN NaN
    ELSE IF IsZero(x) THEN Zero(-Sgn(x))
    ELSE IF IsInf(x) THEN Inf(-x.n)
    ELSE Num(-x.n, x.d)

FAdd(x, y) ==
    IF IsNaN(x) \/ IsNaN(y) THEN NaN
    ELSE IF IsInf(x) /\ IsInf(y) THEN (IF x.n = y.n THEN x ELSE NaN)
    ELSE IF IsInf(x) THEN x
    ELSE IF IsInf(y) THEN y
    ELSE IF IsZero(x) /\ IsZero(y)
         THEN Zero(IF Sgn(x) < 0 /\ Sgn(y) < 0 THEN -1 ELSE 1)
    ELSE Num(x.n * y.d + y.n * x.d, x.d * y.d)

FSub(x, y) == FAdd(x, FNeg(y))

FMul(x, y) ==
    IF IsNaN(x) \/ IsNaN(y) THEN NaN
    ELSE IF (IsInf(x) /\ IsZero(y)) \/ (IsZero(x) /\ IsInf(y)) THEN NaN
    ELSE IF IsInf(x) \/ IsInf(y) THEN Inf(Sgn(x) * Sgn(y))
    ELSE IF IsZero(x) \/ IsZero(y) THEN Zero(Sgn(x) * Sgn(y))
    ELSE Num(x.n * y.n, x.d * y.d)

FDiv(x, y) ==
    IF IsNaN(x) \/ IsNaN(y) THEN NaN
    ELSE IF (IsZero(x) /\ IsZero(y)) \/ (IsInf(x) /\ IsInf(y)) THEN NaN
    ELSE IF IsZero(y) \/ IsInf(x) THEN Inf(Sgn(x) * Sgn(y))
    ELSE IF IsInf(y) \/ IsZero(x) THEN Zero(Sgn(x) * Sgn(y))
    ELSE Num(x.n * y.d, x.d * y.n)

\* the comparison x == y of two floats: NaN equals nothing, -0.0 equals 0.0
FEq(x, y) ==
    IF IsNaN(x) \/ IsNaN(y) THEN FALSE
    ELSE IF IsZero(x) /\ IsZero(y) THEN TRUE
    ELSE x = y

\* the comparison x < y of two floats, neither NaN
FLess(x, y) ==
    IF IsInf(x) THEN x.n < 0 /\ ~(IsInf(y) /\ y.n < 0)
    ELSE IF IsInf(y) THEN y.n > 0
    ELSE x.n * y.d < y.n * x.d

FSqrt(x) ==
    IF IsNaN(x) THEN NaN
    ELSE IF IsZero(x) THEN x
    ELSE IF Sgn(x) < 0 THEN NaN
    ELSE IF IsInf(x) THEN x
    ELSE [k |-> "sqrt", n |-> x.n, d |-> x.d]

(***************************************************************************)
(* Tensors of rank one are sequences of scalars.                           *)
(***************************************************************************)
HasNaN(y) == \E i \in 1..Len(y) : IsNaN(y[i])

RECURSIVE TSum(_)
TSum(y) == IF y = <<>> THEN OfInt(0) ELSE FAdd(y[1], TSum(Tail(y)))

RECURSIVE TMaxOf(_, _)
TMaxOf(best, y) ==
    IF y = <<>> THEN best
    ELSE TMaxOf(IF FLess(best, y[1]) THEN y[1] ELSE best, Tail(y))

RECURSIVE TMinOf(_, _)
TMinOf(best, y) ==
    IF y = <<>> THEN best
    ELSE TMinOf(IF FLess(y[1], best) THEN y[1] ELSE best, Tail(y))

\* torch.max / torch.min of a non-empty tensor: NaN when an entry is NaN
TMax(y) == IF HasNaN(y) THEN NaN ELSE TMaxOf(y[1], Tail(y))

TMin(y) == IF HasNaN(y) THEN NaN ELSE TMinOf(y[1], Tail(y))

\* torch.mean: the sum over the number of entries
TMean(y) == FDiv(TSum(y), OfInt(Len(y)))

\* torch.std: the unbiased estimator, NaN for a single entry
TStd(y) ==
    LET m == TMean(y)
        sq == [i \in 1..Len(y) |-> FMul(FSub(y[i], m), FSub(y[i], m))]
    IN  FSqrt(FDiv(TSum(sq), OfInt(Len(y) - 1)))

(***************************************************************************)
(* The state.                                                              *)
(*                                                                         *)
(* DataHandler and the configuration main() builds it from:                *)
(*   config          the hydra configuration: dataset.split,               *)
(*                   dataset.normalize_data, dataset.train_fraction,       *)
(*                   proxy._target_ ("none" when no proxy is configured),  *)
(*                   logger.resume                                         *)
(*   oracle          the oracle: maximize                                  *)
(*   pc              "new" before the DataHandler is constructed, "ready"  *)
(*                   once it is, "error" when its construction raised      *)
(*   is_mes          main()'s is_mes                                       *)
(*   split, normalize_data, target_factor, train_dataset, test_dataset,    *)
(*   train_stats, test_stats      the fields of the DataHandler            *)
(*   csv             the files data_train.csv, data_test.csv and           *)
(*                   data_sampled.csv the logger persists                  *)
(*   oracle_log      history: the raw energy the oracle (or the            *)
(*                   environment's initial dataset) gave for state i; the  *)
(*                   states are numbered 1, 2, ... in the order they are   *)
(*                   handed to the DataHandler                             *)
(*   routed          the lists train_states / test_states of the last      *)
(*                   update_dataset call                                   *)
(*   init_result     the call of initialise_dataset: which of the four     *)
(*                   tensors of a "given" split the environment left None, *)
(*                   and the exception the call raised, with its message   *)
(*                   as the parts it is put together from                  *)
(* The function call of the specification of the pure functions:           *)
(*   call            the function applied, its argument before and after   *)
(*                   the call, and what it returned                        *)
(* The surrogate's checkpoints and the proxies:                            *)
(*   disk            the checkpoint files, by path: the round context and  *)
(*                   the checkpoint id (0 for "final", e for the epoch     *)
(*                   tag "epoch%03d" % e); a file holds the state of a     *)
(*                   model, either under the key "model_state_dict" beside *)
(*                   "optimizer_state_dict" (keyed) or on its own, with    *)
(*                   no state of an optimizer (optimizer 0)                *)
(*   logger          the logger: context, proxy_period (0 for np.inf)      *)
(*   regressor       the DropoutRegressor of regressor.py: model, the      *)
(*                   weights in memory (0: no model yet; m > 0: those of   *)
(*                   the m-th initialize_model(); m < 0: those of a        *)
(*                   checkpoint that was on disk from the start),          *)
(*                   optimizer, the state of the optimizer likewise,       *)
(*                   inits, the number of initialize_model() calls of the  *)
(*                   run so far, max_epochs and history, bound, whether    *)
(*                   main's variable `regressor` is bound to it, and born, *)
(*                   the round main constructed it in (0: not by a round)  *)
(*   proxy           the proxy object: its class and its model_path        *)
(*   scored          the last __call__ of the proxy: whether it returned a *)
(*                   score, whether it loaded the checkpoint first, the    *)
(*                   weights the score was computed with, the weights of   *)
(*                   the checkpoint on disk at that moment, and what it    *)
(*                   raised                                                *)
(*   last_load       the last load_model() of the regressor: the logger's  *)
(*                   context at the call, the path it looked up, whether   *)
(*                   the file was there, what the call raised and the      *)
(*                   weights it left in memory                             *)
(*   last_fit        the last fit() of the regressor: the round of main it *)
(*                   was called in, the round its regressor was            *)
(*                   constructed in, the logger's context                  *)
(*                   at the call, what it raised, the weights and the      *)
(*                   optimizer state in memory when it ended, the          *)
(*                   regressor's inits before the call, and what a         *)
(*                   load_model() right after it gives                     *)
(* The AL round of main():                                                 *)
(*   al              pc, where the round is ("start": at the head of the   *)
(*                   loop, "fitted": past regressor.fit(), "pick":         *)
(*                   candidates are to be picked and scored by the oracle, *)
(*                   "queried": the oracle has been called and NaN rows    *)
(*                   filtered, "raised": main ended with an exception);    *)
(*                   iter; n_fid, config.multifidelity.proxy and whether   *)
(*                   the oracle is a MoleculeOracle; the                   *)
(*                   picked_states, picked_samples, picked_energies,       *)
(*                   energies_for_evaluation and picked_fidelity of the    *)
(*                   round; the cumulative_sampled_* records; and, by      *)
(*                   state, what the oracles returned for it and the       *)
(*                   fidelity it was queried at                            *)
(***************************************************************************)
VARIABLES config, oracle, pc, is_mes, split, normalize_data, target_factor,
          train_dataset, test_dataset, train_stats, test_stats, csv,
          oracle_log, routed, init_result, call, disk, logger, regressor, proxy, scored,
          last_load, last_fit, al

dhvars == <<config, oracle, pc, is_mes, split, normalize_data, target_factor,
            train_dataset, test_dataset, train_stats, test_stats, csv,
            oracle_log, routed, init_result>>

pxvars == <<disk, logger, regressor, proxy, scored, last_load, last_fit>>

alvars == <<al>>

vars == <<dhvars, call, pxvars, alvars>>

(***************************************************************************)
(* Values of the model.                                                    *)
(***************************************************************************)
\* the raw energies an oracle answers with
Energies == {NegZero, OfInt(2)}

\* a tensor, or None
Some(v) == [none |-> FALSE, v |-> v]

None == [none |-> TRUE, v |-> <<>>]

\* a dataset {"states": ..., "energies": ...}, or None
NoDataset == [none |-> TRUE, states |-> <<>>, energies |-> <<>>]

\* a statistics dictionary, or None
NoStats == [none |-> TRUE, mean |-> NaN, std |-> NaN, max |-> NaN, min |-> NaN]

\* a persisted csv file, or no file
NoFile == [exists |-> FALSE, samples |-> <<>>, energies |-> <<>>]

\* the checkpoint paths: <<round context, checkpoint id>>
Paths == (1..MaxContext) \X (0..MaxEpoch)

\* no exception
NoError == [type |-> "none", message |-> <<>>]

NoInit == [called |-> FALSE, absent |-> {}, raised |-> NoError]

\* no call of get_dataloader: the two configurations of self.dataloader,
\* and for each loader the order in which an iteration gave the rows
NoLoaders == [made |-> FALSE, raised |-> "none",
              train |-> [batch_size |-> 1, shuffle |-> FALSE],
              test |-> [batch_size |-> 1, shuffle |-> FALSE],
              iterated |-> FALSE, train_batches |-> <<>>,
              test_batches |-> <<>>]

\* no call of check_convergence: its argument, the exception it raised, the
\* tests that held and self.converged before the call
NoConv == [epoch |-> 0, raised |-> "none", fired |-> {}, before |-> 0]

\* no fit of a SingleTaskSVGP: the position in fit, the exception it raised,
\* the surrogate's configuration, weights, mode and caches, the locals of
\* fit, the attributes it sets, and the evaluations and checks it has made
NoSvgp == [pc |-> "none", raised |-> "none", early_stopping |-> FALSE,
           num_epochs |-> 0, eval_period |-> 1, patience |-> 1,
           epoch_idx |-> 0, weights |-> -1, mode |-> "train",
           requires_grad |-> TRUE, cache |-> "stale", train_data |-> FALSE,
           metrics |-> <<>>, best_score |-> None, best_score_epoch |-> 0,
           best_weights |-> -1, best_loss |-> None, best_loss_epoch |-> 0,
           stop |-> FALSE, attr_best_score |-> None, attr_best_loss |-> None,
           evals |-> <<>>, score_checks |-> <<>>, stop_checks |-> <<>>]

\* no call of preprocess
NoPreprocess == [normalize |-> FALSE, inplace |-> FALSE, mem_before |-> <<>>,
                 mem_after |-> <<>>, dataset |-> 0,
                 raised |-> <<FALSE, FALSE>>,
                 out |-> <<NoDataset, NoDataset>>,
                 stats |-> <<NoStats, NoStats>>]

\* the regressor's eps
Eps == Num(1, 100)

\* a checkpoint file, or no file
NoCkpt == [exists |-> FALSE, keyed |-> FALSE, model |-> 0, optimizer |-> 0]

\* a regressor after __init__: no model and no optimizer yet
NewRegressor(max_epochs, history) ==
    [bound |-> TRUE, born |-> 0, model |-> 0, optimizer |-> 0, inits |-> 0,
     max_epochs |-> max_epochs, history |-> history, eps |-> Eps,
     err_test_hist |-> <<>>, converged |-> 0]

NoProxy == [class |-> "none", model_path |-> <<1, 0>>]

NoScore == [made |-> FALSE, loaded |-> FALSE, model |-> 0, persisted |-> 0,
            raised |-> "none"]

NoLoad == [called |-> FALSE, context |-> 1, path |-> <<1, 0>>,
           found |-> FALSE, raised |-> "none", model |-> 0,
           optimizer |-> 0]

NoFit == [called |-> FALSE, iter |-> 0, born |-> 0, context |-> 1,
          raised |-> "none", model |-> 0, optimizer |-> 0,
          inits_before |-> 0, reload |-> NoLoad, errs |-> <<>>,
          epoch |-> 0, checks |-> <<>>, saves |-> <<>>]

\* the AL loop before its first round (lines 155-165)
NewRound(n_fid, molecule) ==
    [pc |-> "pick", iter |-> 1, n_fid |-> n_fid, molecule |-> molecule,
     multifidelity_proxy |-> TRUE,
     picked_states |-> <<>>, picked_samples |-> <<>>,
     picked_energies |-> <<>>, energies_for_evaluation |-> <<>>,
     picked_fidelity |-> None,
     cumulative_sampled_states |-> <<>>, cumulative_sampled_samples |-> <<>>,
     cumulative_sampled_energies |-> <<>>,
     cumulative_sampled_fidelities |-> <<>>,
     oracle_energy |-> <<>>, oracle_hf_energy |-> <<>>, fidelity |-> <<>>,
     in_loop |-> FALSE, n_samples |-> MaxNew, budget |-> 0,
     proxy_class |-> "none", cumulative_cost |-> 0, cost_before |-> 0,
     steps |-> <<>>, raised |-> "none", fit_saw |-> <<>>, left |-> <<>>,
     updated_with |-> <<>>]

\* the environment's conversions of a state: to the proxy's input space and
\* to the human-readable form
StateToProxy(s) == [proxy |-> s]

StateToReadable(s) == [readable |-> s]

(***************************************************************************)
(* DataHandler: the pure functions.                                        *)
(***************************************************************************)
\* the product alone, without data[data == -0.0] = 0.0
ScaleTensorSigned(v, tf) ==
    [i \in 1..Len(v) |-> FMul(v[i], tf)]

\* data * self.target_factor, then data[data == -0.0] = 0.0, on a tensor
ScaleTensor(v, tf) ==
    [i \in 1..Len(v) |->
        LET p == FMul(v[i], tf)
        IN  IF FEq(p, NegZero) THEN OfInt(0) ELSE p]

\* scale_by_target_factor(data): what the caller's argument holds after the
\* call (the product is a new tensor, the indexed assignment writes to it)
\* and what the call returns
ScaleByTargetFactor(data, tf) ==
    IF data.none
    THEN [arg |-> data, ret |-> data]
    ELSE [arg |-> data, ret |-> Some(ScaleTensor(data.v, tf))]

\* the in-memory energies written to the file as they are
ReadableEnergiesUnscaled(energies, tf) == energies

\* the energies of a readable dataset: the in-memory energies scaled by the
\* target factor once more before .tolist() (lines 226, 243, 473, 484)
ReadableEnergies(energies, tf) == ScaleTensor(energies, tf)

\* get_statistics(y), y not empty (torch.max raises on an empty tensor)
GetStatistics(y) ==
    [none |-> FALSE, mean |-> TMean(y), std |-> TStd(y),
     max |-> TMax(y), min |-> TMin(y)]

Normalize(y, stats) ==
    [i \in 1..Len(y) |->
        FDiv(FSub(y[i], stats.min), FSub(stats.max, stats.min))]

Denormalize(y, stats) ==
    [i \in 1..Len(y) |->
        FAdd(FMul(y[i], FSub(stats.max, stats.min)), stats.min)]

\* preprocess(dataset) of a dataset that is not empty
Preprocess(dataset, normalize) ==
    LET states == [i \in 1..Len(dataset.states) |->
                      StateToProxy(dataset.states[i])]
        scores == dataset.energies
        stats == GetStatistics(scores)
    IN  [dataset |-> [none |-> FALSE, states |-> states,
                      energies |-> IF normalize THEN Normalize(scores, stats)
                                   ELSE scores],
         stats |-> stats]

\* The memory of a preprocess call: a sequence of objects, a reference is an
\* index into it. An object is a tensor (v) or a dataset dict, whose entries
\* "states" and "energies" are references to tensors.
TensorCell(v) == [kind |-> "tensor", v |-> v, states |-> 0, energies |-> 0]

DictCell(states, energies) ==
    [kind |-> "dict", v |-> <<>>, states |-> states, energies |-> energies]

\* a new object
Alloc(mem, cell) == [mem |-> Append(mem, cell), ref |-> Len(mem) + 1]

\* preprocess without the clone: the environment is handed the input tensor
AliasTensor(mem, ref) == [mem |-> mem, ref |-> ref]

\* states.clone()
CloneTensor(mem, ref) == Alloc(mem, mem[ref])

\* self.env.statetorch2proxy(state_input_proxy): the conversion of every
\* row, written into the argument or returned as a new tensor
EnvStateToProxy(mem, ref, inplace) ==
    LET out == [i \in 1..Len(mem[ref].v) |-> StateToProxy(mem[ref].v[i])]
    IN  IF inplace
        THEN [mem |-> [mem EXCEPT ![ref].v = out], ref |-> ref]
        ELSE Alloc(mem, TensorCell(out))

\* the dataset a dict of the memory holds, by value
Deref(mem, ref) ==
    IF ref = 0 THEN NoDataset
    ELSE [none |-> FALSE, states |-> mem[mem[ref].states].v,
          energies |-> mem[mem[ref].energies].v]

\* preprocess(dataset), statement by statement on the memory; get_statistics
\* raises on an empty tensor of energies
PreprocessMem(mem, dataset, normalize, inplace) ==
    LET states == mem[dataset].states
        scores == mem[dataset].energies
        state_input_proxy == CloneTensor(mem, states)
        state_proxy == EnvStateToProxy(state_input_proxy.mem,
                                       state_input_proxy.ref, inplace)
        new_dataset == Alloc(state_proxy.mem, DictCell(state_proxy.ref, scores))
        y == mem[scores].v
    IN  IF Len(y) = 0
        THEN [mem |-> new_dataset.mem, raised |-> TRUE, dataset |-> 0,
              stats |-> NoStats]
        ELSE LET stats == GetStatistics(y)
                 normalized == Alloc(new_dataset.mem,
                                     TensorCell(Normalize(y, stats)))
             IN  [mem |-> IF normalize
                          THEN [normalized.mem EXCEPT
                                   ![new_dataset.ref].energies = normalized.ref]
                          ELSE new_dataset.mem,
                  raised |-> FALSE, dataset |-> new_dataset.ref,
                  stats |-> stats]

(***************************************************************************)
(* main(): is_mes, and DataHandler.__init__ with initialise_dataset.       *)
(***************************************************************************)
Splits == {"random", "all_train", "given", "kfold"}

\* config.proxy._target_, by the acquisition it names; "none": no proxy
ProxyTargets == {"none", "ucb", "mes", "kg"}

\* train_fraction, as numerator and denominator
TrainFractions == {<<1, 2>>}

\* The configurations explored: every split with and without normalization
\* for the targets "none" and "mes"; the targets "ucb" and "kg", which enter
\* the DataHandler through is_mes alone, with one split each, and a resumed
\* run, which turns every split into "given", with an implemented split and
\* an unimplemented one.
Configs ==
    {c \in [split : Splits, normalize_data : BOOLEAN,
            train_fraction : TrainFractions, proxy_target : ProxyTargets,
            resume : BOOLEAN] :
        /\ c.resume => (c.split \in {"random", "kfold"} /\ ~c.normalize_data)
        /\ c.proxy_target \in {"ucb", "kg"} =>
              (c.split = "all_train" /\ ~c.normalize_data /\ ~c.resume)}

\* Python's truth value of a string
StrTruthy(str) == str # ""

\* sub in target.lower(), for the targets of ProxyTargets
Contains(target, sub) == target = sub

\* "proxy" in config and ("mes" or "kg" in config.proxy._target_.lower()):
\* `in` binds tighter than `or`, so the right operand of `and` is
\* "mes" or ("kg" in ...), and the string "mes" is true
IsMes(cfg) ==
    /\ cfg.proxy_target # "none"
    /\ (StrTruthy("mes") \/ Contains(cfg.proxy_target, "kg"))

\* self.target_factor of DataHandler.__init__
TargetFactor(maximize, ismes) ==
    IF maximize = FALSE /\ ismes = TRUE THEN OfInt(-1) ELSE OfInt(1)

\* states[index]: the rows of a tensor at the given indices
Pick(xs, idx) == [i \in 1..Len(idx) |-> xs[idx[i]]]

\* the readable dataset {"samples": ..., "energies": ...} as a csv file
FileOf(states, energies) ==
    [exists |-> TRUE,
     samples |-> [i \in 1..Len(states) |-> StateToReadable(states[i])],
     energies |-> energies]

NoFiles == [f \in {"train", "test", "sampled"} |-> NoFile]

\* torch.randperm(n)
Perms(n) ==
    {f \in [1..n -> 1..n] : \A i, j \in 1..n : f[i] = f[j] => i = j}

\* initialise_dataset() on the initial dataset of the environment: the states
\* 1..Len(raw) with the energies raw; index is the draw of torch.randperm,
\* cut the number of train rows of the tuple a "given" split is read from.
\* The result holds the fields the call leaves in the DataHandler and the
\* files it wrote; pc is "error" when the call raised.
InitialiseDataset(cfg, tf, raw, index, cut, absent) ==
    LET n == Len(raw)
        states == [i \in 1..n |-> i]
        the_split == IF cfg.resume \/ cfg.split = "given"
                     THEN "given" ELSE cfg.split
        scores == ScaleTensor(raw, tf)
        ntrain == (n * cfg.train_fraction[1]) \div cfg.train_fraction[2]
        train_index == SubSeq(index, 1, ntrain)
        test_index == SubSeq(index, ntrain + 1, n)
        train_states ==
            CASE the_split = "random" -> Pick(states, train_index)
              [] the_split = "all_train" -> states
              [] OTHER -> SubSeq(states, 1, cut)
        test_states ==
            CASE the_split = "random" -> Pick(states, test_index)
              [] the_split = "all_train" -> <<>>
              [] OTHER -> SubSeq(states, cut + 1, n)
        train_scores ==
            CASE the_split = "random" -> Pick(scores, train_index)
              [] the_split = "all_train" -> scores
              [] OTHER -> ScaleTensor(SubSeq(raw, 1, cut), tf)
        test_scores ==
            CASE the_split = "random" -> Pick(scores, test_index)
              [] the_split = "all_train" -> <<>>
              [] OTHER -> ScaleTensor(SubSeq(raw, cut + 1, n), tf)
        \* lines 226-237
        train_readable == ReadableEnergies(train_scores, tf)
        train_file == FileOf(train_states, train_readable)
        train_energies == ScaleTensor(train_readable, tf)
        train == Preprocess([states |-> train_states,
                             energies |-> train_energies],
                            cfg.normalize_data)
        \* lines 242-262
        has_test == Len(test_states) > 0
        test_readable == ReadableEnergies(test_scores, tf)
        test_file == FileOf(test_states, test_readable)
        test_energies == ScaleTensor(test_readable, tf)
        test == Preprocess([states |-> test_states,
                            energies |-> test_energies],
                           cfg.normalize_data)
        failed == [pc |-> "error", split |-> the_split,
                   train_dataset |-> NoDataset, test_dataset |-> NoDataset,
                   train_stats |-> NoStats, test_stats |-> NoStats,
                   csv |-> NoFiles, raised |-> NoError]
    IN  IF the_split = "given"
           /\ absent \cap {"train_states", "test_states"} # {}
        THEN \* line 143: torch.cat((train_states, test_states)) on None
             [failed EXCEPT !.raised =
                 [type |-> "TypeError",
                  message |-> <<"expected Tensor as element of tensors">>]]
        ELSE IF the_split = "given"
                /\ absent \cap {"train_scores", "test_scores"} # {}
        THEN \* line 144: torch.cat((train_scores, test_scores)) on None
             [failed EXCEPT !.raised =
                 [type |-> "TypeError",
                  message |-> <<"expected Tensor as element of tensors">>]]
        ELSE IF the_split \notin {"random", "all_train", "given"}
        THEN \* line 202
             [failed EXCEPT !.raised =
                 [type |-> "ValueError",
                  message |-> <<"Split type not implemented">>]]
        ELSE IF the_split = "given" /\ absent # {}
        THEN \* the asserts of lines 193-196
             [failed EXCEPT !.raised =
                 [type |-> "AssertionError", message |-> <<>>]]
        ELSE IF Len(train_states) = 0
        THEN \* the train file is saved, then get_statistics raises on the
             \* empty tensor of energies (torch.max, line 321)
             [failed EXCEPT
                 !.csv = [NoFiles EXCEPT !["train"] = train_file],
                 !.raised = [type |-> "RuntimeError",
                             message |-> <<"max(): empty tensor">>]]
        ELSE [pc |-> "ready", split |-> the_split, raised |-> NoError,
              train_dataset |-> train.dataset,
              test_dataset |-> IF has_test THEN test.dataset ELSE NoDataset,
              train_stats |-> train.stats,
              test_stats |-> IF has_test THEN test.stats ELSE NoStats,
              csv |-> [NoFiles EXCEPT
                          !["train"] = train_file,
                          !["test"] = IF has_test THEN test_file ELSE NoFile]]

\* the four tensors of the tuple env.initialize_dataset returns for a
\* "given" split (lines 139-142)
GivenTensors == {"train_states", "train_scores", "test_states", "test_scores"}

\* main() up to the construction of the DataHandler
Main ==
    /\ pc = "new"
    /\ \E n \in 1..MaxInit :
         \E raw \in [1..n -> Energies], index \in Perms(n), cut \in 0..n,
            absent \in SUBSET GivenTensors :
            LET ismes == IsMes(config)
                tf == TargetFactor(oracle.maximize, ismes)
                dh == InitialiseDataset(config, tf, raw, index, cut, absent)
            IN  /\ (config.split # "given" /\ ~config.resume) => absent = {}
                /\ init_result' = [called |-> TRUE, absent |-> absent,
                                   raised |-> dh.raised]
                /\ is_mes' = ismes
                /\ target_factor' = tf
                /\ normalize_data' = config.normalize_data
                /\ pc' = dh.pc
                /\ split' = dh.split
                /\ train_dataset' = dh.train_dataset
                /\ test_dataset' = dh.test_dataset
                /\ train_stats' = dh.train_stats
                /\ test_stats' = dh.test_stats
                /\ csv' = dh.csv
                /\ oracle_log' = raw
    /\ UNCHANGED <<config, oracle, routed, call, pxvars, alvars>>

(***************************************************************************)
(* DataHandler.update_dataset.                                             *)
(***************************************************************************)
RECURSIVE SelectBy(_, _, _)
SelectBy(xs, flags, want) ==
    IF xs = <<>> THEN <<>>
    ELSE (IF flags[1] = want THEN <<xs[1]>> ELSE <<>>)
         \o SelectBy(Tail(xs), Tail(flags), want)

\* a routing that appends the items drawn for the test split to the train
\* split as well
RouteBoth(xs, to_test) ==
    [train |-> xs, test |-> SelectBy(xs, to_test, TRUE)]

\* the loop of lines 387-399 on one of the zipped lists: to_test[i] is the
\* outcome of np.random.uniform() < 1/10 for item i
Route(xs, to_test) ==
    [train |-> SelectBy(xs, to_test, FALSE),
     test |-> SelectBy(xs, to_test, TRUE)]

\* the torch.cat of the energies without that of the states
AppendRowsEnergiesOnly(dataset, states_proxy, energies) ==
    [dataset EXCEPT !.energies = @ \o energies]

\* the two torch.cat of a split: energies (lines 415-421) and states
\* (lines 423-429)
AppendRows(dataset, states_proxy, energies) ==
    [dataset EXCEPT !.energies = @ \o energies, !.states = @ \o states_proxy]

\* lines 406-441 for one split: denormalize at the statistics in force,
\* concatenate, recompute the statistics, normalize at the new statistics
UpdateSplit(dataset, stats, states_proxy, energies, normalize) ==
    LET denormalized ==
            IF normalize
            THEN [dataset EXCEPT !.energies = Denormalize(@, stats)]
            ELSE dataset
        appended == AppendRows(denormalized, states_proxy, energies)
        new_stats == GetStatistics(appended.energies)
    IN  [dataset |-> IF normalize
                     THEN [appended EXCEPT
                              !.energies = Normalize(@, new_stats)]
                     ELSE appended,
         stats |-> new_stats]

\* lines 471-492 for one split: read the file, concatenate the new readable
\* rows, save
AppendFile(file, samples, energies) ==
    [exists |-> TRUE,
     samples |-> file.samples \o samples,
     energies |-> file.energies \o energies]

\* update_dataset(states, energies): the states are the next Len(es) states,
\* es their raw energies, to_test the draws of the routing loop
UpdateDataset(es, to_test) ==
    LET k == Len(es)
        states == [i \in 1..k |-> Len(oracle_log) + i]
        samples == [i \in 1..k |-> StateToReadable(states[i])]
        energies == ScaleTensor(es, target_factor)
        states_proxy == [i \in 1..k |-> StateToProxy(states[i])]
        r_samples == Route(samples, to_test)
        r_states == Route(states, to_test)
        r_proxy == Route(states_proxy, to_test)
        r_energies == Route(energies, to_test)
        train == UpdateSplit(train_dataset, train_stats, r_proxy.train,
                             r_energies.train, normalize_data)
        test == UpdateSplit(test_dataset, test_stats, r_proxy.test,
                            r_energies.test, normalize_data)
    IN  /\ train_dataset' = train.dataset
        /\ train_stats' = train.stats
        /\ IF test_dataset.none
           THEN UNCHANGED <<test_dataset, test_stats>>
           ELSE /\ test_dataset' = test.dataset
                /\ test_stats' = test.stats
        /\ csv' = [csv EXCEPT
              !["sampled"] = FileOf(states, es),
              !["train"] = AppendFile(@, r_samples.train,
                              ReadableEnergies(r_energies.train,
                                               target_factor)),
              !["test"] = IF test_dataset.none THEN @
                          ELSE AppendFile(@, r_samples.test,
                                  ReadableEnergies(r_energies.test,
                                                   target_factor))]
        /\ routed' = [train_states |-> r_states.train,
                      test_states |-> r_states.test]
        /\ oracle_log' = oracle_log \o es

Update ==
    /\ pc = "ready"
    /\ \E k \in 0..MaxNew :
         /\ Len(oracle_log) + k <= MaxRows
         /\ \E es \in [1..k -> Energies], to_test \in [1..k -> BOOLEAN] :
               UpdateDataset(es, to_test)
    /\ UNCHANGED <<config, oracle, pc, is_mes, split, normalize_data,
                   target_factor, init_result, call, pxvars, alvars>>

(***************************************************************************)
(* The specification of the DataHandler.                                   *)
(***************************************************************************)
NoCall == [fn |-> "none", before |-> None, after |-> None, ret |-> None,
           tf |-> OfInt(1), pp |-> NoPreprocess, loaders |-> NoLoaders,
           conv |-> NoConv, svgp |-> NoSvgp]

\* no DataHandler constructed yet
DataNew ==
    /\ pc = "new"
    /\ is_mes = FALSE
    /\ split = "unset"
    /\ normalize_data = FALSE
    /\ target_factor = OfInt(1)
    /\ train_dataset = NoDataset
    /\ test_dataset = NoDataset
    /\ train_stats = NoStats
    /\ test_stats = NoStats
    /\ csv = NoFiles
    /\ oracle_log = <<>>
    /\ routed = [train_states |-> <<>>, test_states |-> <<>>]
    /\ init_result = NoInit

\* one configuration, for the specifications that construct no DataHandler
OneConfig ==
    /\ config = [split |-> "all_train", normalize_data |-> FALSE,
                 train_fraction |-> <<1, 2>>, proxy_target |-> "none",
                 resume |-> FALSE]
    /\ oracle = [maximize |-> TRUE]

\* no checkpoint on disk, no proxy
ProxyNew ==
    /\ disk = [p \in Paths |-> NoCkpt]
    /\ logger = [context |-> 1, proxy_period |-> 1]
    /\ regressor = NewRegressor(1, 0)
    /\ proxy = NoProxy
    /\ scored = NoScore
    /\ last_load = NoLoad
    /\ last_fit = NoFit

\* the AL loop has not started
RoundNew == al = NewRound(1, FALSE)

Init ==
    /\ config \in Configs
    /\ oracle \in [maximize : BOOLEAN]
    /\ DataNew
    /\ call = NoCall
    /\ ProxyNew
    /\ RoundNew

Next == Main \/ Update

Spec == Init /\ [][Next]_vars

(***************************************************************************)
(* The specification of the pure functions: scale_by_target_factor and the *)
(* round trip through normalize and denormalize, each applied to an        *)
(* argument drawn from the tensors of at most MaxLen entries.              *)
(***************************************************************************)
\* the finite entries of an energies tensor
FiniteValues == {OfInt(-1), NegZero, OfInt(0), OfInt(2)}

\* the entries of a tensor
Values == FiniteValues \cup {NaN, Inf(1)}

TensorsOf(S) == UNION {[1..n -> S] : n \in 0..MaxLen}

IsFinite(y) == \A i \in 1..Len(y) : y[i] \in FiniteValues

\* scale_by_target_factor(scale_by_target_factor(e))
ScaleTwice ==
    /\ call.fn = "none"
    /\ LET first == ScaleByTargetFactor(call.before, call.tf)
           second == ScaleByTargetFactor(first.ret, call.tf)
       IN  call' = [call EXCEPT !.fn = "scale_twice", !.after = first.arg,
                                !.ret = second.ret]
    /\ UNCHANGED <<dhvars, pxvars, alvars>>

\* denormalize(normalize(y, s), s) with s = get_statistics(y), on a tensor of
\* energies; get_statistics raises on the empty tensor
RoundTrip ==
    /\ call.fn = "none"
    /\ ~call.before.none
    /\ IsFinite(call.before.v)
    /\ LET y == call.before.v
           s == GetStatistics(y)
       IN  call' = IF Len(y) = 0
                   THEN [call EXCEPT !.fn = "round_trip_raised"]
                   ELSE [call EXCEPT
                            !.fn = "round_trip",
                            !.ret = Some(Denormalize(Normalize(y, s), s))]
    /\ UNCHANGED <<dhvars, pxvars, alvars>>

\* preprocess(dataset) called twice on one dataset dict: the dict and its
\* two tensors are objects of the memory, the states are a tensor of as many
\* rows as the energies; the environment's statetorch2proxy either writes
\* into the tensor it is handed or returns a new one
PreprocessTwice ==
    /\ call.fn = "none"
    /\ ~call.before.none
    /\ \E normalize \in BOOLEAN, inplace \in BOOLEAN :
          LET y == call.before.v
              states == [i \in 1..Len(y) |-> [state |-> i]]
              mem == <<TensorCell(states), TensorCell(y), DictCell(1, 2)>>
              first == PreprocessMem(mem, 3, normalize, inplace)
              second == PreprocessMem(first.mem, 3, normalize, inplace)
          IN  call' = [call EXCEPT
                  !.fn = "preprocess_twice",
                  !.pp = [normalize |-> normalize, inplace |-> inplace,
                          mem_before |-> mem, mem_after |-> second.mem,
                          dataset |-> 3,
                          raised |-> <<first.raised, second.raised>>,
                          out |-> <<Deref(first.mem, first.dataset),
                                    Deref(second.mem, second.dataset)>>,
                          stats |-> <<first.stats, second.stats>>]]
    /\ UNCHANGED <<dhvars, pxvars, alvars>>

InitFn ==
    /\ OneConfig
    /\ DataNew
    /\ ProxyNew
    /\ RoundNew
    /\ \E arg \in {Some(v) : v \in TensorsOf(Values)} \cup {None},
          tf \in {OfInt(1), OfInt(-1)} :
          call = [fn |-> "none", before |-> arg, after |-> arg, ret |-> None,
                  tf |-> tf, pp |-> NoPreprocess, loaders |-> NoLoaders,
                  conv |-> NoConv, svgp |-> NoSvgp]

NextFn == ScaleTwice \/ RoundTrip \/ PreprocessTwice

SpecFn == InitFn /\ [][NextFn]_vars

(***************************************************************************)
(* The data loaders (SpecLoader): get_dataloader on a DataHandler with a   *)
(* train split and a test split (or none), for every configuration of      *)
(* self.dataloader, and one iteration of the two loaders it returns.        *)
(***************************************************************************)
BatchSizes == {1, 2}

LoaderConfigs == [batch_size : BatchSizes, shuffle : BOOLEAN]

\* the orders in which a DataLoader's sampler gives the indices of n rows:
\* RandomSampler when shuffle is set, SequentialSampler otherwise
SamplerOrders(n, shuffle) ==
    IF shuffle THEN Perms(n) ELSE {[i \in 1..n |-> i]}

\* BatchSampler with drop_last = False: the indices in groups of batch_size
RECURSIVE BatchesOf(_, _)
BatchesOf(order, batch_size) ==
    IF Len(order) = 0 THEN <<>>
    ELSE IF Len(order) <= batch_size THEN <<order>>
    ELSE <<SubSeq(order, 1, batch_size)>>
         \o BatchesOf(SubSeq(order, batch_size + 1, Len(order)), batch_size)

\* DataLoader(data, batch_size, shuffle): RandomSampler takes len(data) when
\* it is constructed, SequentialSampler when it is iterated
LoaderRaises(dataset, shuffle) == dataset.none /\ shuffle

\* get_dataloader()
GetDataloader ==
    /\ pc = "ready"
    /\ ~call.loaders.made
    /\ call.loaders.raised = "none"
    /\ \E train \in LoaderConfigs, test \in LoaderConfigs :
          call' = [call EXCEPT
              !.fn = "get_dataloader",
              !.loaders =
                  IF LoaderRaises(train_dataset, train.shuffle)
                     \/ LoaderRaises(test_dataset, test.shuffle)
                  THEN [NoLoaders EXCEPT !.raised = "TypeError",
                                         !.train = train, !.test = test]
                  ELSE [NoLoaders EXCEPT !.made = TRUE,
                                         !.train = train, !.test = test]]
    /\ UNCHANGED <<dhvars, pxvars, alvars>>

\* one pass over train_loader, then one over test_loader, as fit makes them;
\* a batch is the indices of its rows in the dataset
IterateLoaders ==
    /\ call.loaders.made
    /\ ~call.loaders.iterated
    /\ call.loaders.raised = "none"
    /\ LET l == call.loaders
       IN  \E train_order \in SamplerOrders(Len(train_dataset.states),
                                             l.train.shuffle) :
             IF test_dataset.none
             THEN \* len(None) in the sampler of test_loader
                  call' = [call EXCEPT
                      !.loaders.raised = "TypeError",
                      !.loaders.train_batches =
                          BatchesOf(train_order, l.train.batch_size)]
             ELSE \E test_order \in SamplerOrders(Len(test_dataset.states),
                                                   l.test.shuffle) :
                    call' = [call EXCEPT
                        !.loaders.iterated = TRUE,
                        !.loaders.train_batches =
                            BatchesOf(train_order, l.train.batch_size),
                        !.loaders.test_batches =
                            BatchesOf(test_order, l.test.batch_size)]
    /\ UNCHANGED <<dhvars, pxvars, alvars>>

\* a DataHandler after initialise_dataset, with a train split of one to
\* MaxInit rows and a test split of up to MaxInit rows or none
InitLoader ==
    /\ OneConfig
    /\ pc = "ready"
    /\ is_mes = FALSE
    /\ split = "all_train"
    /\ normalize_data = FALSE
    /\ target_factor = OfInt(1)
    /\ \E n \in 1..MaxInit, m \in 0..MaxInit :
          LET rows(k) == [none |-> FALSE,
                          states |-> [i \in 1..k |-> StateToProxy(i)],
                          energies |-> [i \in 1..k |-> OfInt(2)]]
          IN  /\ train_dataset = rows(n)
              /\ test_dataset = IF m = 0 THEN NoDataset ELSE rows(m)
              /\ train_stats = GetStatistics(rows(n).energies)
              /\ test_stats = IF m = 0 THEN NoStats
                              ELSE GetStatistics(rows(m).energies)
    /\ csv = NoFiles
    /\ oracle_log = <<>>
    /\ routed = [train_states |-> <<>>, test_states |-> <<>>]
    /\ init_result = NoInit
    /\ call = NoCall
    /\ ProxyNew
    /\ RoundNew

NextLoader == GetDataloader \/ IterateLoaders

SpecLoader == InitLoader /\ [][NextLoader]_vars

(***************************************************************************)
(* The surrogate's checkpoints and the proxies (SpecProxy).                *)
(*                                                                         *)
(* The regressor is the DropoutRegressor of regressor/regressor.py, the    *)
(* logger the AL_Logger of utils/logger.py with proxy_ckpt_path set.  The  *)
(* proxies are the three classes of proxy/acquisition.py and the two of    *)
(* proxy/ucb.py; the base class of the latter two (proxy/dropout_regressor)*)
(* only keeps the regressor it is given.                                   *)
(***************************************************************************)
ProxyClasses == {"acquisition.DropoutRegressor", "acquisition.UCB",
                 "acquisition.BotorchUCB", "ucb.UCB", "ucb.BotorchUCB"}

AcquisitionClasses == {"acquisition.DropoutRegressor", "acquisition.UCB",
                       "acquisition.BotorchUCB"}

\* proxy.period of the configuration; 0 stands for None and -1
ProxyPeriods == {0, 1, 2}

\* a % b of Python for a >= 0 and b > 0, and a % np.inf = a
PyMod(a, b) == IF b = 0 THEN a ELSE a % b

\* os.path.exists(path)
Exists(dsk, path) == dsk[path].exists

\* the path of the checkpoint with id ckpt_id in the logger's context
CkptPath(lg, ckpt_id) == <<lg.context, ckpt_id>>

\* logger.set_context(iter)
SetContextOf(lg, iter) == [lg EXCEPT !.context = iter]

\* AL_Logger.save_proxy(model, final, epoch): torch.save(model.state_dict(),
\* path) writes the state of the model alone, under no key
SaveProxy(dsk, lg, model, final, epoch) ==
    IF PyMod(epoch, lg.proxy_period) = 0 \/ final
    THEN LET ckpt_id == IF final THEN 0 ELSE epoch
         IN [dsk EXCEPT ![CkptPath(lg, ckpt_id)] =
                 [exists |-> TRUE, keyed |-> FALSE, model |-> model,
                  optimizer |-> 0]]
    ELSE dsk

\* DropoutRegressor.initialize_model(): a new network and a new optimizer
InitializeModel(reg) ==
    [reg EXCEPT !.model = reg.inits + 1, !.optimizer = reg.inits + 1,
                !.inits = reg.inits + 1]

\* DropoutRegressor.load_model() of the regressor: the model is initialised
\* first, then the "final" checkpoint of the logger's context is read
LoadModel(reg, dsk, lg) ==
    LET path == CkptPath(lg, 0)
        fresh == InitializeModel(reg)
        res == IF Exists(dsk, path)
               THEN IF dsk[path].keyed
                    THEN [regressor |->
                              [fresh EXCEPT
                                  !.model = dsk[path].model,
                                  !.optimizer = dsk[path].optimizer],
                          raised |-> "none"]
                    ELSE [regressor |-> fresh, raised |-> "KeyError"]
               ELSE [regressor |-> fresh, raised |-> "FileNotFoundError"]
    IN [regressor |-> res.regressor,
        raised |-> res.raised,
        load |-> [called |-> TRUE, context |-> lg.context, path |-> path,
                  found |-> Exists(dsk, path), raised |-> res.raised,
                  model |-> res.regressor.model,
                  optimizer |-> res.regressor.optimizer]]

\* load_model() of the proxies of acquisition.py: the regressor's
\* load_model takes no path, so the call with self.model_path raises before
\* the regressor does anything
ProxyLoadModel(prx, reg, dsk) ==
    IF Exists(dsk, prx.model_path)
    THEN [regressor |-> reg, raised |-> "TypeError"]
    ELSE [regressor |-> reg, raised |-> "FileNotFoundError"]

\* the weights of the "final" checkpoint of the logger's context (0: none)
Persisted(dsk, lg) ==
    IF Exists(dsk, CkptPath(lg, 0)) THEN dsk[CkptPath(lg, 0)].model ELSE 0

\* __call__ of the proxies of acquisition.py: load_model(), then the score
AcquisitionCall(prx, reg, dsk, lg) ==
    LET l == ProxyLoadModel(prx, reg, dsk)
    IN [regressor |-> l.regressor,
        scored |-> IF l.raised = "none"
                   THEN [made |-> TRUE, loaded |-> TRUE,
                         model |-> l.regressor.model,
                         persisted |-> Persisted(dsk, lg), raised |-> "none"]
                   ELSE [NoScore EXCEPT !.raised = l.raised]]

\* __call__ of the proxies of ucb.py: the score of the regressor as it is
UcbCall(prx, reg, dsk, lg) ==
    [regressor |-> reg,
     scored |-> [made |-> TRUE, loaded |-> FALSE, model |-> reg.model,
                 persisted |-> Persisted(dsk, lg), raised |-> "none"]]

\* the parameters of AL_Logger.save_proxy after self
SaveProxyParams == <<"model", "final", "epoch">>

\* Python's binding of a call with npos positional arguments and the keyword
\* arguments kws to the parameters params raises TypeError: too many
\* positional arguments, a parameter given by position and by keyword, an
\* unknown keyword, or a parameter left without a value
BindRaises(params, npos, kws) ==
    \/ npos > Len(params)
    \/ \E i \in 1..Len(params) : i <= npos /\ params[i] \in kws
    \/ \E k \in kws : \A i \in 1..Len(params) : params[i] # k
    \/ \E i \in 1..Len(params) : i > npos /\ params[i] \notin kws

\* fit's call self.logger.save_proxy(self.model, self.optimizer, final=...,
\* epoch=epoch): two positional arguments and the keywords final and epoch
FitSaveProxy(dsk, lg, reg, final, epoch) ==
    IF BindRaises(SaveProxyParams, 2, {"final", "epoch"})
    THEN [disk |-> dsk, raised |-> "TypeError"]
    ELSE [disk |-> SaveProxy(dsk, lg, reg.model, final, epoch),
          raised |-> "none"]

\* the initialisations of the model that are followed: MaxModels, and in
\* the AL loop the two of each round (fit and the proxy's load_model)
ModelCap == IF al.in_loop THEN 2 * MaxContext ELSE MaxModels

\* the weights after a training pass are named by adding WeightStride, which
\* is more than the initialisations followed
WeightStride == MaxModels + 2 * MaxContext + 1

\* train(train_loader): the optimizer steps change the weights and the
\* state of the optimizer
Train(reg) ==
    [reg EXCEPT !.model = @ + WeightStride, !.optimizer = @ + WeightStride]

\* test(test_loader): the held-out error err of the model is recorded
Test(reg, err) == [reg EXCEPT !.err_test_hist = Append(@, err)]

\* Python's xs[i] raises IndexError
PyIndexRaises(xs, i) == i >= Len(xs) \/ i < 0 - Len(xs)

\* Python's xs[i]
PyIndex(xs, i) == IF i >= 0 THEN xs[i + 1] ELSE xs[Len(xs) + i + 1]

\* Python's xs[start:]
PySliceFrom(xs, start) ==
    LET from == IF start >= 0
                THEN (IF start > Len(xs) THEN Len(xs) ELSE start)
                ELSE (IF Len(xs) + start < 0 THEN 0 ELSE Len(xs) + start)
    IN  SubSeq(xs, from + 1, Len(xs))

\* the comparison x < y of two floats: false when one is NaN
PyLess(x, y) == ~IsNaN(x) /\ ~IsNaN(y) /\ FLess(x, y)

\* abs(x)
FAbs(x) ==
    IF IsNaN(x) THEN NaN
    ELSE IF IsZero(x) THEN OfInt(0)
    ELSE IF IsInf(x) THEN Inf(1)
    ELSE Num(Abs(x.n), x.d)

\* the first test of check_convergence:
\* all(np.asarray(err_test_hist[-history + 1:]) > err_test_hist[-history])
TestLossIncreasing(hist, history) ==
    LET later == PySliceFrom(hist, 1 - history)
        oldest == PyIndex(hist, 0 - history)
    IN  \A i \in 1..Len(later) : PyLess(oldest, later[i])

\* the second: abs(err_test_hist[-history]
\*   - np.average(err_test_hist[-history:])) / err_test_hist[-history] < eps
TestLossFlat(hist, history, eps) ==
    LET window == PySliceFrom(hist, 0 - history)
        oldest == PyIndex(hist, 0 - history)
    IN  PyLess(FDiv(FAbs(FSub(oldest, TMean(window))), oldest), eps)

\* check_convergence(epoch): the tests that held, in the order of the code,
\* and self.converged
CheckConvergence(reg, epoch) ==
    IF PyIndexRaises(reg.err_test_hist, 0 - reg.history)
    THEN [regressor |-> reg, raised |-> "IndexError", fired |-> {}]
    ELSE LET fired ==
                 {c \in {"increasing", "flat", "max_epochs"} :
                    \/ c = "increasing"
                       /\ TestLossIncreasing(reg.err_test_hist, reg.history)
                    \/ c = "flat"
                       /\ TestLossFlat(reg.err_test_hist, reg.history, reg.eps)
                    \/ c = "max_epochs" /\ epoch >= reg.max_epochs}
         IN  [regressor |-> IF fired # {} THEN [reg EXCEPT !.converged = 1]
                            ELSE reg,
              raised |-> "none", fired |-> fired]

\* the loop of fit from epoch on; errs are the held-out errors test() finds
\* at each epoch. The result holds the last epoch entered (0: none), the
\* calls of check_convergence with the tests that held, and the calls of
\* save_proxy that returned, with the path each wrote (or that it wrote none)
RECURSIVE FitLoop(_, _, _, _, _, _)
FitLoop(epoch, reg, dsk, lg, errs, log) ==
    IF epoch > reg.max_epochs
    THEN [regressor |-> reg, disk |-> dsk, raised |-> "none",
          epoch |-> epoch - 1, checks |-> log.checks, saves |-> log.saves]
    ELSE LET tested == Test(reg, errs[epoch])
             saved == FitSaveProxy(dsk, lg, tested, FALSE, epoch)
             saves1 == Append(log.saves,
                              [epoch |-> epoch, final |-> FALSE,
                               model |-> tested.model,
                               wrote |-> saved.disk # dsk])
             trained == Train(tested)
             checked == IF epoch > reg.history
                        THEN CheckConvergence(trained, epoch)
                        ELSE [regressor |-> trained, raised |-> "none",
                              fired |-> {}]
             checks1 == IF epoch > reg.history
                        THEN Append(log.checks,
                                    [epoch |-> epoch, fired |-> checked.fired])
                        ELSE log.checks
             final == FitSaveProxy(saved.disk, lg, checked.regressor, TRUE,
                                   epoch)
             saves2 == Append(saves1,
                              [epoch |-> epoch, final |-> TRUE,
                               model |-> checked.regressor.model,
                               wrote |-> final.disk # saved.disk])
         IN  IF saved.raised # "none"
             THEN [regressor |-> tested, disk |-> dsk, raised |-> saved.raised,
                   epoch |-> epoch, checks |-> log.checks, saves |-> log.saves]
             ELSE IF checked.raised # "none"
             THEN [regressor |-> trained, disk |-> saved.disk,
                   raised |-> checked.raised, epoch |-> epoch,
                   checks |-> log.checks, saves |-> saves1]
             ELSE IF checked.regressor.converged = 1
             THEN [regressor |-> checked.regressor, disk |-> final.disk,
                   raised |-> final.raised, epoch |-> epoch,
                   checks |-> checks1,
                   saves |-> IF final.raised = "none" THEN saves2 ELSE saves1]
             ELSE FitLoop(epoch + 1, checked.regressor, saved.disk, lg, errs,
                          [checks |-> checks1, saves |-> saves1])

\* fit() after initialize_model: the error histories are emptied, converged
\* is 0, then the epochs run
FitEpochs(reg, dsk, lg, errs) ==
    FitLoop(1, [reg EXCEPT !.err_test_hist = <<>>, !.converged = 0], dsk, lg,
            errs, [checks |-> <<>>, saves |-> <<>>])

\* a fit that keeps the weights and the optimizer the regressor holds
FitWarmStart(reg, dsk, lg, errs) == FitEpochs(reg, dsk, lg, errs)

\* fit(): the model is initialised, then the epochs run
Fit(reg, dsk, lg, errs) == FitEpochs(InitializeModel(reg), dsk, lg, errs)

\* the held-out errors test() may find
TestErrors == {OfInt(0), OfInt(1), OfInt(2)}

\* the logger is told the round
SetContext ==
    \E iter \in 1..MaxContext :
        /\ logger' = SetContextOf(logger, iter)
        /\ UNCHANGED <<dhvars, call, alvars, disk, regressor, proxy, scored, last_load, last_fit>>

\* the regressor's model is saved through the logger
SaveProxyModel ==
    \E final \in BOOLEAN, epoch \in 1..MaxEpoch :
        /\ regressor.bound
        /\ al.pc # "raised"
        /\ regressor.model # 0
        /\ disk' = SaveProxy(disk, logger, regressor.model, final, epoch)
        /\ UNCHANGED <<dhvars, call, alvars, logger, regressor, proxy, scored,
                       last_load, last_fit>>

\* regressor.load_model() is called
LoadModelCall ==
    /\ regressor.bound
    /\ al.pc # "raised"
    /\ regressor.inits < MaxModels
    /\ LET l == LoadModel(regressor, disk, logger)
       IN /\ regressor' = l.regressor
          /\ last_load' = l.load
    /\ UNCHANGED <<dhvars, call, alvars, disk, logger, proxy, scored, last_fit>>

\* the head of an AL round (lines 179-202): the regressor is constructed
\* when config.multifidelity.proxy is set, the logger is told the round,
\* and fit() is called when N_FID == 1 or config.multifidelity.proxy; with
\* N_FID == 1 and no multifidelity.proxy the name `regressor` is unbound
RoundFit ==
    /\ al.pc = "start"
    /\ regressor.inits < ModelCap
    /\ \E errs \in [1..regressor.max_epochs -> TestErrors] :
          LET constructed ==
                  IF al.multifidelity_proxy
                  THEN [NewRegressor(regressor.max_epochs, regressor.history)
                            EXCEPT !.born = al.iter,
                                   !.inits = regressor.inits]
                  ELSE regressor
              lg == SetContextOf(logger, al.iter)
              fits == al.n_fid = 1 \/ al.multifidelity_proxy
              f == Fit(constructed, disk, lg, errs)
          IN  /\ logger' = lg
              /\ IF ~fits
                 THEN /\ regressor' = constructed
                      /\ al' = [al EXCEPT !.pc = "fitted", !.steps = <<>>]
                      /\ UNCHANGED <<disk, last_fit>>
                 ELSE IF ~constructed.bound
                 THEN /\ regressor' = constructed
                      /\ al' = [al EXCEPT !.pc = "raised", !.steps = <<>>,
                                          !.raised = "UnboundLocalError"]
                      /\ UNCHANGED <<disk, last_fit>>
                 ELSE /\ regressor' = f.regressor
                      /\ disk' = f.disk
                      /\ al' = [al EXCEPT
                            !.pc = IF f.raised = "none"
                                   THEN "fitted" ELSE "raised",
                            !.raised = f.raised,
                            !.steps = <<"fit">>,
                            !.fit_saw = <<train_dataset, test_dataset>>]
                      /\ last_fit' =
                            [called |-> TRUE, iter |-> al.iter,
                             born |-> constructed.born,
                             context |-> lg.context, raised |-> f.raised,
                             model |-> f.regressor.model,
                             optimizer |-> f.regressor.optimizer,
                             inits_before |-> regressor.inits,
                             reload |-> LoadModel(f.regressor, f.disk, lg).load,
                             errs |-> errs, epoch |-> f.epoch,
                             checks |-> f.checks, saves |-> f.saves]
    /\ UNCHANGED <<dhvars, call, proxy, scored, last_load>>

\* the end of an AL round (lines 404-408): del regressor, iter += 1
EndRound ==
    /\ al.pc = "fitted"
    /\ al.iter < MaxContext
    /\ regressor' = [regressor EXCEPT !.bound = FALSE]
    /\ al' = [al EXCEPT !.pc = "start", !.iter = @ + 1]
    /\ UNCHANGED <<dhvars, call, disk, logger, proxy, scored, last_load,
                   last_fit>>

\* a proxy is constructed on the regressor; those of ucb.py load the model
ConstructProxy ==
    \E class \in ProxyClasses, path \in Paths :
        IF class \in AcquisitionClasses
        THEN /\ proxy' = [class |-> class, model_path |-> path]
             /\ UNCHANGED <<dhvars, call, alvars, disk, logger, regressor, scored,
                            last_load, last_fit>>
        ELSE /\ path = CkptPath(logger, 0)
             /\ regressor.inits < MaxModels
             /\ LET l == LoadModel(regressor, disk, logger)
                IN /\ regressor' = l.regressor
                   /\ last_load' = l.load
                   /\ proxy' = IF l.raised = "none"
                               THEN [class |-> class, model_path |-> path]
                               ELSE NoProxy
             /\ UNCHANGED <<dhvars, call, alvars, disk, logger, scored, last_fit>>

\* the proxy is called on a batch of states
CallProxy ==
    /\ proxy.class # "none"
    /\ LET r == IF proxy.class \in AcquisitionClasses
                THEN AcquisitionCall(proxy, regressor, disk, logger)
                ELSE UcbCall(proxy, regressor, disk, logger)
       IN /\ regressor' = r.regressor
          /\ scored' = r.scored
    /\ UNCHANGED <<dhvars, call, alvars, disk, logger, proxy, last_load, last_fit>>

\* checkpoints of earlier runs may be on disk: a "final" one per context, in
\* the layout load_model reads, with weights of its own
InitProxy ==
    /\ OneConfig
    /\ DataNew
    /\ call = NoCall
    /\ \E present \in SUBSET (1..MaxContext) :
          disk = [p \in Paths |->
                    IF p[2] = 0 /\ p[1] \in present
                    THEN [exists |-> TRUE, keyed |-> TRUE, model |-> 0 - p[1],
                          optimizer |-> 0 - p[1]]
                    ELSE NoCkpt]
    /\ logger \in [context : {1}, proxy_period : ProxyPeriods]
    /\ regressor = NewRegressor(1, 0)
    /\ proxy = NoProxy
    /\ scored = NoScore
    /\ last_load = NoLoad
    /\ last_fit = NoFit
    /\ RoundNew

NextProxy ==
    SetContext \/ SaveProxyModel \/ LoadModelCall \/ ConstructProxy \/ CallProxy

SpecProxy == InitProxy /\ [][NextProxy]_vars

(***************************************************************************)
(* The surrogate's fit and its checkpoints over the AL rounds (SpecFit):   *)
(* the regressor with every max_epochs and history its constructor accepts *)
(* (it asserts history <= max_epochs), no proxy.  A resumed run starts at  *)
(* the round after the last it recorded; load_model and save_proxy are     *)
(* called within a round.                                                  *)
(***************************************************************************)
InitFit ==
    /\ OneConfig
    /\ DataNew
    /\ call = NoCall
    /\ \E present \in SUBSET (1..MaxContext) :
          disk = [p \in Paths |->
                    IF p[2] = 0 /\ p[1] \in present
                    THEN [exists |-> TRUE, keyed |-> TRUE, model |-> 0 - p[1],
                          optimizer |-> 0 - p[1]]
                    ELSE NoCkpt]
    /\ logger \in [context : {1}, proxy_period : ProxyPeriods]
    /\ \E e \in 0..MaxEpoch, h \in 0..MaxEpoch :
          h <= e /\ regressor = [NewRegressor(e, h) EXCEPT !.bound = FALSE]
    /\ proxy = NoProxy
    /\ scored = NoScore
    /\ last_load = NoLoad
    /\ last_fit = NoFit
    /\ \E iter \in 1..MaxContext, n_fid \in {1, 2}, mf \in BOOLEAN :
          al = [NewRound(n_fid, FALSE) EXCEPT
                   !.pc = "start", !.iter = iter, !.multifidelity_proxy = mf]

NextFit == RoundFit \/ LoadModelCall \/ SaveProxyModel \/ EndRound

SpecFit == InitFit /\ [][NextFit]_vars

(***************************************************************************)
(* The convergence of fit (SpecConv): a constructed regressor with every   *)
(* max_epochs up to MaxHist and every history its constructor accepts,     *)
(* holding a history of held-out errors; fit() is called on it with every  *)
(* sequence of held-out errors, and check_convergence(epoch) with the      *)
(* epoch of the last error of the history it holds.                        *)
(***************************************************************************)
ErrorHistories == UNION {[1..n -> TestErrors] : n \in 0..MaxHist}

\* regressor.fit()
FitRun ==
    /\ regressor.bound
    /\ ~last_fit.called
    /\ call.fn = "none"
    /\ \E errs \in [1..regressor.max_epochs -> TestErrors] :
          LET f == Fit(regressor, disk, logger, errs)
          IN  /\ regressor' = f.regressor
              /\ disk' = f.disk
              /\ last_fit' =
                    [called |-> TRUE, iter |-> al.iter,
                     born |-> regressor.born, context |-> logger.context,
                     raised |-> f.raised, model |-> f.regressor.model,
                     optimizer |-> f.regressor.optimizer,
                     inits_before |-> regressor.inits,
                     reload |-> LoadModel(f.regressor, f.disk, logger).load,
                     errs |-> errs, epoch |-> f.epoch,
                     checks |-> f.checks, saves |-> f.saves]
    /\ UNCHANGED <<dhvars, call, alvars, logger, proxy, scored, last_load>>

\* regressor.check_convergence(epoch)
CheckConvergenceCall ==
    /\ regressor.bound
    /\ ~last_fit.called
    /\ call.fn = "none"
    /\ LET epoch == Len(regressor.err_test_hist)
           c == CheckConvergence(regressor, epoch)
       IN  /\ regressor' = c.regressor
           /\ call' = [call EXCEPT
                  !.fn = "check_convergence",
                  !.conv = [epoch |-> epoch, raised |-> c.raised,
                            fired |-> c.fired,
                            before |-> regressor.converged]]
    /\ UNCHANGED <<dhvars, alvars, disk, logger, proxy, scored, last_load,
                   last_fit>>

InitConv ==
    /\ OneConfig
    /\ DataNew
    /\ call = NoCall
    /\ disk = [p \in Paths |-> NoCkpt]
    /\ logger \in [context : {1}, proxy_period : ProxyPeriods]
    /\ \E e \in 0..MaxHist, h \in 0..MaxHist, hist \in ErrorHistories :
          /\ h <= e
          /\ regressor = [NewRegressor(e, h) EXCEPT !.err_test_hist = hist]
    /\ proxy = NoProxy
    /\ scored = NoScore
    /\ last_load = NoLoad
    /\ last_fit = NoFit
    /\ RoundNew

NextConv == FitRun \/ CheckConvergenceCall

SpecConv == InitConv /\ [][NextConv]_vars

(***************************************************************************)
(* The AL round of main(): the oracle call on the picked candidates, the   *)
(* filter of NaN energies and the cumulative records (SpecRound).          *)
(***************************************************************************)
\* what an oracle may return for a candidate
OracleEnergies == {OfInt(2), NaN}

\* env.statebatch2oracle on one state
StateToOracle(s) == [oracle |-> s]

\* torch.isnan on a tensor
IsNanOf(y) == [i \in 1..Len(y) |-> IsNaN(y[i])]

\* lines 292-330: states are the picked states, es what
\* env.call_oracle_per_fidelity (n_fid > 1) or env.oracle returns for them,
\* hf what oracle(picked_samples) returns (n_fid > 1), fid the fidelities
\* env.statebatch2oracle returns (n_fid > 1)
QueryOracle(n_fid, molecule, states, es, hf, fid) ==
    LET samples == [i \in 1..Len(states) |-> StateToOracle(states[i])]
        idxNaN == IF n_fid > 1
                  THEN [i \in 1..Len(states) |->
                           IsNanOf(hf)[i] \/ IsNanOf(es)[i]]
                  ELSE IsNanOf(es)
        kept_energies == IF molecule THEN SelectBy(es, idxNaN, FALSE) ELSE es
        kept_hf == IF molecule THEN SelectBy(hf, idxNaN, FALSE) ELSE hf
    IN  [picked_states |->
             IF molecule THEN SelectBy(states, idxNaN, FALSE) ELSE states,
         picked_samples |->
             IF molecule THEN SelectBy(samples, idxNaN, FALSE) ELSE samples,
         picked_energies |-> kept_energies,
         energies_for_evaluation |->
             IF n_fid > 1 THEN kept_hf ELSE kept_energies,
         picked_fidelity |-> IF n_fid > 1 THEN Some(fid) ELSE None]

\* the oracle is called on the candidates picked in this round
Query ==
    /\ al.pc = "pick"
    /\ \E k \in 0..MaxNew :
         /\ Len(al.oracle_energy) + k <= MaxRows
         /\ al.in_loop => (1 <= k /\ k <= al.n_samples)
         /\ \E es \in [1..k -> OracleEnergies], hf \in [1..k -> OracleEnergies],
               fid \in [1..k -> 1..al.n_fid] :
              LET states == [i \in 1..k |-> Len(al.oracle_energy) + i]
                  q == QueryOracle(al.n_fid, al.molecule, states, es, hf, fid)
              IN  /\ al.n_fid = 1 => hf = es
                  /\ al' = [al EXCEPT
                        !.pc = "queried",
                        !.steps = IF al.in_loop THEN Append(@, "oracle")
                                  ELSE @,
                        !.picked_states = q.picked_states,
                        !.picked_samples = q.picked_samples,
                        !.picked_energies = q.picked_energies,
                        !.energies_for_evaluation = q.energies_for_evaluation,
                        !.picked_fidelity = q.picked_fidelity,
                        !.oracle_energy = @ \o es,
                        !.oracle_hf_energy = @ \o hf,
                        !.fidelity = @ \o fid]
    /\ UNCHANGED <<dhvars, call, pxvars>>

\* lines 336-345: the cumulative records are extended; the round ends
Accumulate ==
    /\ al.pc = "queried"
    /\ al' = [al EXCEPT
          !.pc = IF al.in_loop THEN "accumulated" ELSE "pick",
          !.cumulative_sampled_states = @ \o al.picked_states,
          !.cumulative_sampled_samples = @ \o al.picked_samples,
          !.cumulative_sampled_energies = @ \o al.energies_for_evaluation,
          !.cumulative_sampled_fidelities =
              IF al.picked_fidelity.none THEN @
              ELSE @ \o al.picked_fidelity.v]
    /\ UNCHANGED <<dhvars, call, pxvars>>

InitRound ==
    /\ OneConfig
    /\ DataNew
    /\ call = NoCall
    /\ ProxyNew
    /\ \E n_fid \in {1, 2}, molecule \in BOOLEAN : al = NewRound(n_fid, molecule)

NextRound == Query \/ Accumulate

SpecRound == InitRound /\ [][NextRound]_vars

(***************************************************************************)
(* The AL loop of main() (SpecLoop): the rounds from the loop test to      *)
(* iter += 1, on a DataHandler initialised with a random split, with the   *)
(* DropoutRegressor and the proxies of src/proxy, for every n_samples,     *)
(* budget, number of fidelities and multifidelity.proxy. Rounds are        *)
(* followed up to round MaxContext.                                        *)
(***************************************************************************)
\* the bound of `config.n_samples <= 1e5`
SampleLimit == 100000

\* oracle.cost, the cost of one query
OracleCost == 1

\* config.al_n_rounds
AlNRounds == 2

\* lines 131-137: BUDGET; budget 0 stands for no "budget" in config
Budget(budget, n_samples) ==
    IF budget # 0 THEN budget ELSE AlNRounds * OracleCost * n_samples

\* line 179: while cumulative_cost < BUDGET
LoopTest ==
    /\ al.in_loop
    /\ al.pc = "while"
    /\ al.iter <= MaxContext
    /\ al' = [al EXCEPT
          !.pc = IF al.cumulative_cost < al.budget THEN "start" ELSE "done",
          !.cost_before = al.cumulative_cost]
    /\ UNCHANGED <<dhvars, call, pxvars>>

\* lines 231-244: the proxy is instantiated on the regressor when the
\* configuration has one, and handed to the environment; the sampler is
\* instantiated
LoopProxy ==
    /\ al.in_loop
    /\ al.pc = "fitted"
    /\ regressor.inits < ModelCap
    /\ IF al.proxy_class = "none"
       THEN /\ proxy' = NoProxy
            /\ al' = [al EXCEPT !.pc = "proxied"]
            /\ UNCHANGED <<regressor, last_load>>
       ELSE IF ~regressor.bound
       THEN \* regressor=regressor with the name unbound
            /\ al' = [al EXCEPT !.pc = "raised",
                                !.raised = "UnboundLocalError"]
            /\ UNCHANGED <<regressor, proxy, last_load>>
       ELSE IF al.proxy_class \in AcquisitionClasses
       THEN /\ proxy' = [class |-> al.proxy_class,
                         model_path |-> CkptPath(logger, 0)]
            /\ al' = [al EXCEPT !.pc = "proxied",
                                !.steps = Append(@, "proxy")]
            /\ UNCHANGED <<regressor, last_load>>
       ELSE LET l == LoadModel(regressor, disk, logger)
            IN  /\ regressor' = l.regressor
                /\ last_load' = l.load
                /\ proxy' = IF l.raised = "none"
                            THEN [class |-> al.proxy_class,
                                  model_path |-> CkptPath(logger, 0)]
                            ELSE NoProxy
                /\ al' = IF l.raised = "none"
                         THEN [al EXCEPT !.pc = "proxied",
                                         !.steps = Append(@, "proxy")]
                         ELSE [al EXCEPT !.pc = "raised",
                                         !.raised = l.raised]
    /\ UNCHANGED <<dhvars, call, disk, logger, scored, last_fit>>

\* lines 254-286: gflownet.train(); with 0 < n_samples <= 1e5 the sampler
\* gives a batch, the batch is scored by the proxy (by the regressor's
\* get_predictions, which DropoutRegressor has not, when there is none) and
\* the best num_pick are picked
LoopSample ==
    /\ al.in_loop
    /\ al.pc = "proxied"
    /\ LET trained == Append(al.steps, "train")
           r == IF proxy.class \in AcquisitionClasses
                THEN \* env.proxy(state_proxy): __call__(inputs, fids) is
                     \* handed one argument
                     [regressor |-> regressor,
                      scored |-> [NoScore EXCEPT !.raised = "TypeError"]]
                ELSE UcbCall(proxy, regressor, disk, logger)
       IN  IF ~(al.n_samples > 0 /\ al.n_samples <= SampleLimit)
           THEN /\ al' = [al EXCEPT !.pc = "end", !.steps = trained]
                /\ UNCHANGED <<regressor, scored>>
           ELSE IF proxy.class = "none"
           THEN /\ al' = [al EXCEPT
                      !.pc = "raised", !.steps = Append(trained, "sample"),
                      !.raised = IF regressor.bound THEN "AttributeError"
                                 ELSE "UnboundLocalError"]
                /\ UNCHANGED <<regressor, scored>>
           ELSE /\ regressor' = r.regressor
                /\ scored' = r.scored
                /\ al' = IF r.scored.raised = "none"
                         THEN [al EXCEPT
                                  !.pc = "pick",
                                  !.steps = trained \o <<"sample", "score_pick">>]
                         ELSE [al EXCEPT
                                  !.pc = "raised",
                                  !.steps = Append(trained, "sample"),
                                  !.raised = r.scored.raised]
    /\ UNCHANGED <<dhvars, call, disk, logger, proxy, last_load, last_fit>>

\* lines 358-388: the cost of the round is added (the branch without
\* env.get_cost), then update_dataset is called with the picked states and
\* energies when N_FID == 1 or config.multifidelity.proxy
LoopCostUpdate ==
    /\ al.in_loop
    /\ al.pc = "accumulated"
    /\ pc = "ready"
    /\ LET cost_al_round == Len(al.picked_states) * OracleCost
           updates == al.n_fid = 1 \/ al.multifidelity_proxy
       IN  IF updates
           THEN \E to_test \in [1..Len(al.picked_energies) -> BOOLEAN] :
                  /\ UpdateDataset(al.picked_energies, to_test)
                  /\ al' = [al EXCEPT
                        !.pc = "end",
                        !.cumulative_cost = @ + cost_al_round,
                        !.steps = Append(@, "update_dataset"),
                        !.updated_with = al.picked_states,
                        !.left = <<train_dataset', test_dataset'>>]
           ELSE /\ al' = [al EXCEPT
                      !.pc = "end",
                      !.cumulative_cost = @ + cost_al_round]
                /\ UNCHANGED <<train_dataset, test_dataset, train_stats,
                               test_stats, csv, oracle_log, routed>>
    /\ UNCHANGED <<config, oracle, pc, is_mes, split, normalize_data,
                   target_factor, init_result, call, pxvars>>

\* lines 404-408: del gflownet, del proxy, del regressor, iter += 1
LoopEnd ==
    /\ al.in_loop
    /\ al.pc = "end"
    /\ IF regressor.bound
       THEN /\ regressor' = [regressor EXCEPT !.bound = FALSE]
            /\ proxy' = NoProxy
            /\ al' = [al EXCEPT !.pc = "while", !.iter = @ + 1]
       ELSE /\ al' = [al EXCEPT !.pc = "raised",
                                !.raised = "UnboundLocalError"]
            /\ proxy' = NoProxy
            /\ UNCHANGED regressor
    /\ UNCHANGED <<dhvars, call, disk, logger, scored, last_load, last_fit>>

\* a split of one row after initialise_dataset(): the state in the format
\* of the proxy, the energy times target_factor
LoopSplit(state, energy) ==
    [none |-> FALSE, states |-> <<StateToProxy(state)>>,
     energies |-> <<energy>>]

\* get_statistics on a split of one row (torch.std of one value is nan)
LoopStats(energy) ==
    [none |-> FALSE, mean |-> energy, std |-> NaN, max |-> energy,
     min |-> energy]

\* main() before the loop: the DataHandler that initialise_dataset() leaves
\* for two initial rows of energies 2 and -1 with split "random",
\* train_fraction 1/2, no normalization and the rows in their order (one
\* train row, one test row, each saved to its file), the final checkpoints
\* of an earlier run for some rounds, and the configuration of the campaign
InitLoop ==
    /\ config = [split |-> "random", normalize_data |-> FALSE,
                 train_fraction |-> <<1, 2>>, proxy_target |-> "none",
                 resume |-> FALSE]
    /\ oracle = [maximize |-> TRUE]
    /\ pc = "ready"
    /\ is_mes = FALSE
    /\ split = "random"
    /\ normalize_data = FALSE
    /\ target_factor = OfInt(1)
    /\ train_dataset = LoopSplit(1, OfInt(2))
    /\ test_dataset = LoopSplit(2, OfInt(-1))
    /\ train_stats = LoopStats(OfInt(2))
    /\ test_stats = LoopStats(OfInt(-1))
    /\ csv = [f \in {"train", "test", "sampled"} |->
                IF f = "train" THEN FileOf(<<1>>, <<OfInt(2)>>)
                ELSE IF f = "test" THEN FileOf(<<2>>, <<OfInt(-1)>>)
                ELSE NoFile]
    /\ oracle_log = <<OfInt(2), OfInt(-1)>>
    /\ routed = [train_states |-> <<>>, test_states |-> <<>>]
    /\ init_result = [called |-> TRUE, absent |-> {}, raised |-> NoError]
    /\ call = NoCall
    /\ \E present \in SUBSET (1..MaxContext) :
          disk = [p \in Paths |->
                    IF p[2] = 0 /\ p[1] \in present
                    THEN [exists |-> TRUE, keyed |-> TRUE, model |-> 0 - p[1],
                          optimizer |-> 0 - p[1]]
                    ELSE NoCkpt]
    /\ logger = [context |-> 1, proxy_period |-> 1]
    /\ \E e \in 0..MaxEpoch :
          regressor = [NewRegressor(e, 0) EXCEPT !.bound = FALSE]
    /\ proxy = NoProxy
    /\ scored = NoScore
    /\ last_load = NoLoad
    /\ last_fit = NoFit
    /\ \E n_fid \in {1, 2}, molecule \in BOOLEAN, mf \in BOOLEAN,
          n_samples \in {0, 1, MaxNew, SampleLimit + 1},
          budget \in {0, 2},
          class \in {"none", "acquisition.UCB", "ucb.UCB"} :
          al = [NewRound(n_fid, molecule) EXCEPT
                   !.pc = "while", !.in_loop = TRUE,
                   !.multifidelity_proxy = mf, !.n_samples = n_samples,
                   !.budget = Budget(budget, n_samples),
                   !.proxy_class = class,
                   !.left = <<train_dataset, test_dataset>>]

NextLoop ==
    \/ LoopTest
    \/ RoundFit
    \/ LoopProxy
    \/ LoopSample
    \/ Query
    \/ Accumulate
    \/ LoopCostUpdate
    \/ LoopEnd

SpecLoop == InitLoop /\ [][NextLoop]_vars

(***************************************************************************)
(* SingleTaskSVGP.fit (SpecSvgp): the evaluation before training, the      *)
(* epochs with their periodic evaluation and the two early-stopping        *)
(* checks, and the lines after the loop. Weights are named by the number   *)
(* of training epochs that made them: -1 at the entry of fit, 0 after      *)
(* initialize_surrogate, k after epoch k.                                  *)
(***************************************************************************)
\* the held-out NLL an evaluation may give
Nlls == {0, 1, 2}

\* what surrogate.evaluate(test_loader) returns: a dict with test_nll and
\* test_rmse among its keys
Evaluations == {[k \in {"test_nll", "test_rmse"} |->
                    IF k = "test_nll" THEN Some(n) ELSE Some(1)] : n \in Nlls}

\* metrics.get(key, None)
DictGet(m, k) == IF k \in DOMAIN m THEN m[k] ELSE None

\* metrics[key] raises KeyError for a key the dict has not
DictIndexRaises(m, k) == k \notin DOMAIN m

\* metrics.update(other)
DictUpdate(m, other) ==
    [k \in DOMAIN m \cup DOMAIN other |->
        IF k \in DOMAIN other THEN other[k] ELSE m[k]]

\* lines 179-183: every key of metrics gets the prefix "svgp/"
LogPrefix(m) ==
    [k \in {"svgp/" \o key : key \in DOMAIN m} |->
        m[CHOOSE key \in DOMAIN m : "svgp/" \o key = k]]

\* f"{best_loss:.4f}": None has no float format
FormatRaises(v) == v.none

\* the mutant: the evaluation runs in every epoch
EvalEveryEpoch(epoch_idx, eval_period) == epoch_idx >= 1

\* line 133: epoch_idx % self.surrogate.eval_period == 0
EvalEpoch(epoch_idx, eval_period) == epoch_idx % eval_period = 0

\* model.shared_elements.check_early_stopping, which is not among the
\* sources: a score lower than the best one becomes the best score, with
\* its epoch and (save_weights) a copy of the model's weights; otherwise
\* stop is set once `patience` evaluation periods have passed since the
\* best epoch
CheckEarlyStopping(model, best_score, best_epoch, best_weights, curr_score, curr_epoch, patience, save_weights) ==
    IF best_score.none \/ curr_score < best_score.v
    THEN [best_score |-> Some(curr_score), best_epoch |-> curr_epoch,
          best_weights |-> IF save_weights THEN model.weights
                           ELSE best_weights,
          stop |-> FALSE]
    ELSE [best_score |-> best_score, best_epoch |-> best_epoch,
          best_weights |-> best_weights,
          stop |-> (curr_epoch - best_epoch) \div model.eval_period
                      >= patience]

\* lines 74-105: the surrogate is put in evaluation mode without gradients,
\* the train data is registered, the held-out set is evaluated, the weights
\* are copied as the best ones, the surrogate is initialised
SvgpPrepare ==
    /\ call.svgp.pc = "new"
    /\ \E ev \in Evaluations :
          call' = [call EXCEPT !.svgp = [@ EXCEPT
              !.pc = "loop",
              !.mode = "eval",
              !.requires_grad = FALSE,
              !.cache = "stale",
              !.train_data = FALSE,
              !.evals = <<[epoch |-> 0, nll |-> ev["test_nll"].v,
                           weights |-> call.svgp.weights]>>,
              !.best_score = DictGet(ev, "test_nll"),
              !.best_score_epoch = 0,
              !.best_weights = call.svgp.weights,
              !.weights = 0,
              !.best_loss = None,
              !.best_loss_epoch = 0,
              !.stop = FALSE,
              !.epoch_idx = 0]]
    /\ UNCHANGED <<dhvars, pxvars, alvars>>

\* lines 115-190: one epoch of the loop: the training pass, the evaluation
\* when the epoch is a multiple of eval_period, the best-score check, the
\* stop check, the prefix of the metrics; the loop is left after the last
\* epoch or when stop is set
SvgpEpoch ==
    /\ call.svgp.pc = "loop"
    /\ LET sv == call.svgp
           epoch_idx == sv.epoch_idx + 1
           evaluates == EvalEpoch(epoch_idx, sv.eval_period)
       IN  \E ev \in Evaluations :
             LET trained == [k \in {"epoch", "train_loss"} |->
                                IF k = "epoch" THEN Some(epoch_idx + 1)
                                ELSE Some(0)]
                 m1 == IF evaluates THEN DictUpdate(trained, ev) ELSE trained
                 select_crit == DictGet(m1, "test_nll")
                 model == [weights |-> epoch_idx,
                           eval_period |-> sv.eval_period]
                 checks_score == sv.early_stopping /\ ~select_crit.none
                 s == IF checks_score
                      THEN CheckEarlyStopping(model, sv.best_score,
                               sv.best_score_epoch, sv.best_weights,
                               select_crit.v, epoch_idx + 1, sv.patience, TRUE)
                      ELSE [best_score |-> sv.best_score,
                            best_epoch |-> sv.best_score_epoch,
                            best_weights |-> sv.best_weights, stop |-> FALSE]
                 m2 == DictUpdate(m1,
                          [k \in {"best_score", "best_epoch"} |->
                              IF k = "best_score" THEN s.best_score
                              ELSE Some(s.best_epoch)])
                 stop_crit == DictGet(m2, "test_nll")
                 l == IF ~stop_crit.none
                      THEN CheckEarlyStopping(model, sv.best_loss,
                               sv.best_loss_epoch, -1, stop_crit.v,
                               epoch_idx + 1, sv.patience, FALSE)
                      ELSE [best_score |-> sv.best_loss,
                            best_epoch |-> sv.best_loss_epoch,
                            best_weights |-> -1, stop |-> sv.stop]
                 m3 == DictUpdate(m2,
                          [k \in {"best_loss", "best_loss_epoch"} |->
                              IF k = "best_loss" THEN l.best_score
                              ELSE Some(l.best_epoch)])
             IN  /\ ~evaluates => ev["test_nll"] = Some(0)
                 /\ call' = [call EXCEPT !.svgp = [@ EXCEPT
                       !.pc = IF l.stop \/ epoch_idx = sv.num_epochs
                              THEN "after" ELSE "loop",
                       !.epoch_idx = epoch_idx,
                       !.weights = epoch_idx,
                       !.mode = IF evaluates THEN "eval" ELSE "train",
                       !.requires_grad = ~evaluates,
                       !.cache = "stale",
                       !.train_data = FALSE,
                       !.evals = IF evaluates
                                 THEN Append(@, [epoch |-> epoch_idx,
                                                 nll |-> ev["test_nll"].v,
                                                 weights |-> epoch_idx])
                                 ELSE @,
                       !.score_checks = IF checks_score
                                        THEN Append(@, epoch_idx) ELSE @,
                       !.stop_checks = IF ~stop_crit.none
                                       THEN Append(@, epoch_idx) ELSE @,
                       !.best_score = s.best_score,
                       !.best_score_epoch = s.best_epoch,
                       !.best_weights = s.best_weights,
                       !.best_loss = l.best_score,
                       !.best_loss_epoch = l.best_epoch,
                       !.stop = l.stop,
                       !.metrics = LogPrefix(m3)]]
    /\ UNCHANGED <<dhvars, pxvars, alvars>>

\* lines 192-205: with early stopping the best weights are loaded and
\* best_score and best_loss are recorded, without it they are read from the
\* metrics of the last epoch; then the caches are cleared and the surrogate
\* is left in evaluation mode with the train data registered
SvgpFinish ==
    /\ call.svgp.pc = "after"
    /\ LET sv == call.svgp
           raised ==
               IF sv.early_stopping
               THEN IF FormatRaises(sv.best_loss) THEN "TypeError" ELSE "none"
               ELSE IF DictIndexRaises(sv.metrics, "test_rmse")
                       \/ DictIndexRaises(sv.metrics, "test_nll")
                    THEN "KeyError" ELSE "none"
           loaded == IF sv.early_stopping THEN sv.best_weights ELSE sv.weights
       IN  call' = [call EXCEPT !.svgp =
              IF raised # "none"
              THEN [@ EXCEPT !.pc = "raised", !.raised = raised,
                             !.weights = loaded,
                             !.cache = "stale", !.train_data = FALSE]
              ELSE [@ EXCEPT
                      !.pc = "done",
                      !.weights = loaded,
                      !.attr_best_score =
                          IF sv.early_stopping THEN sv.best_score
                          ELSE sv.metrics["test_rmse"],
                      !.attr_best_loss =
                          IF sv.early_stopping THEN sv.best_loss
                          ELSE sv.metrics["test_nll"],
                      !.requires_grad = FALSE,
                      !.cache = "clear",
                      !.mode = "eval",
                      !.train_data = TRUE]]
    /\ UNCHANGED <<dhvars, pxvars, alvars>>

\* a SingleTaskSVGP constructed on a surrogate with any early_stopping,
\* num_epochs, eval_period and patience
InitSvgp ==
    /\ OneConfig
    /\ DataNew
    /\ ProxyNew
    /\ RoundNew
    /\ \E es \in BOOLEAN, n \in 1..MaxSvgpEpochs, ep \in 1..MaxEvalPeriod,
          pt \in 1..MaxPatience :
          call = [NoCall EXCEPT !.svgp = [NoSvgp EXCEPT
                     !.pc = "new", !.early_stopping = es, !.num_epochs = n,
                     !.eval_period = ep, !.patience = pt]]

NextSvgp == SvgpPrepare \/ SvgpEpoch \/ SvgpFinish

SpecSvgp == InitSvgp /\ [][NextSvgp]_vars

(***************************************************************************)
(* Properties of the DataHandler (under Spec).                             *)
(***************************************************************************)
\* -0.0 written as 0.0, every other value as it is
Canonical(x) == IF IsZero(x) THEN OfInt(0) ELSE x

\* the energy of state s in the space of the in-memory datasets before any
\* normalization: the oracle's energy times the target factor
ScaledEnergy(s) == Canonical(FMul(oracle_log[s], target_factor))

\* the states of the rows of a dataset (none for an absent dataset)
RowStates(dataset) == [i \in 1..Len(dataset.states) |-> dataset.states[i].proxy]

\* the energies the rows of a dataset should hold before any normalization
RowEnergies(dataset) ==
    [i \in 1..Len(dataset.states) |-> ScaledEnergy(dataset.states[i].proxy)]

IsPrefix(xs, ys) == Len(xs) <= Len(ys) /\ SubSeq(ys, 1, Len(xs)) = xs

InSeq(x, xs) == \E i \in 1..Len(xs) : xs[i] = x

\* a step of update_dataset
UpdateStep == pc = "ready" /\ pc' = "ready"

\* C1: update_dataset is append-only for every DataHandler, a DataHandler
\* without test split included: after a call with k new items the train and
\* the test dataset together hold k rows more, and the rows each held before
\* the call are a prefix of its rows afterwards.
C1_AppendOnly ==
    [][UpdateStep =>
          LET k == Len(oracle_log') - Len(oracle_log)
          IN  /\ Len(train_dataset'.states) + Len(test_dataset'.states)
                    = Len(train_dataset.states) + Len(test_dataset.states) + k
              /\ IsPrefix(RowStates(train_dataset), RowStates(train_dataset'))
              /\ IsPrefix(RowStates(test_dataset), RowStates(test_dataset'))
      ]_vars

\* the stored energies of a split are the normalization, at the split's
\* current statistics, of the scaled energies of its rows, and denormalizing
\* them gives the scaled energies back
NormalizedAt(dataset, stats) ==
    LET e == RowEnergies(dataset)
        back == Denormalize(dataset.energies, stats)
        expected == Normalize(e, stats)
    IN  \A i \in 1..Len(dataset.energies) :
           /\ FEq(dataset.energies[i], expected[i])
           /\ FEq(back[i], e[i])

\* C2: with normalize_data, after initialise_dataset and after every
\* update_dataset, every stored energy of a split is the normalization of the
\* row's scaled energy at the current statistics of the split, and
\* denormalizing at the current statistics recovers the scaled energy.
C2_StoredNormalized ==
    (pc = "ready" /\ normalize_data) =>
        /\ NormalizedAt(train_dataset, train_stats)
        /\ ~test_dataset.none => NormalizedAt(test_dataset, test_stats)

\* C3: after initialise_dataset and after every update_dataset, train_stats
\* (and test_stats when there is a test split) are the statistics computed
\* from scratch over the scaled, un-normalized energies of the rows of the
\* split.
C3_StatsFresh ==
    pc = "ready" =>
        /\ train_stats = GetStatistics(RowEnergies(train_dataset))
        /\ ~test_dataset.none =>
              test_stats = GetStatistics(RowEnergies(test_dataset))

\* entry i of the energies is the energy of the state of row i: the scaled
\* energy itself, or its normalization (NaN carries no value to compare)
Paired(dataset, stats) ==
    LET e == RowEnergies(dataset)
        held == IF normalize_data THEN Denormalize(dataset.energies, stats)
                ELSE dataset.energies
    IN  \A i \in 1..Len(dataset.states) :
           i <= Len(dataset.energies) /\ (IsNaN(held[i]) \/ held[i] = e[i])

\* C4: in every state of a constructed DataHandler the train dataset has as
\* many rows of states as entries of energies, and so has the test dataset
\* when there is one; entry i of the energies belongs to row i of the states.
C4_RowsAligned ==
    pc = "ready" =>
        /\ ~train_dataset.none
        /\ Len(train_dataset.states) = Len(train_dataset.energies)
        /\ Len(test_dataset.states) = Len(test_dataset.energies)
        /\ Paired(train_dataset, train_stats)
        /\ Paired(test_dataset, test_stats)

\* C4 witness: an update has put new rows in the train and in the test dataset
C4_Witness ==
    /\ pc = "ready"
    /\ routed.train_states # <<>>
    /\ routed.test_states # <<>>
    /\ ~test_dataset.none
    /\ Len(test_dataset.states) >= 2
    /\ Len(train_dataset.states) >= 2

\* the energies of a persisted file are the raw energies of the oracle
FileIsRaw(file) ==
    /\ Len(file.energies) = Len(file.samples)
    /\ \A i \in 1..Len(file.samples) :
          file.energies[i] = Canonical(oracle_log[file.samples[i].readable])

\* the in-memory energies, normalization undone, are the raw energies times
\* the target factor (NaN carries no sign to compare)
MemoryIsScaledOnce(dataset, stats) ==
    LET held == IF normalize_data THEN Denormalize(dataset.energies, stats)
                ELSE dataset.energies
    IN  \A i \in 1..Len(held) :
           \/ IsNaN(held[i])
           \/ held[i] = Canonical(FMul(oracle_log[dataset.states[i].proxy],
                                       target_factor))

C6_TargetFactor ==
    pc = "ready" =>
        target_factor =
            IF oracle.maximize = FALSE /\ config.proxy_target \in {"mes", "kg"}
            THEN OfInt(-1) ELSE OfInt(1)

\* C9: in update_dataset every new item is routed to exactly one of the lists
\* train and test, in the order of the call; the rows a split held before the
\* call stay in it, in place, and the train dataset grows by exactly the
\* items routed to train, the test dataset (when there is one) by exactly the
\* items routed to test.
C9_Routing ==
    [][UpdateStep =>
          LET new == {s \in 1..Len(oracle_log') : s > Len(oracle_log)}
              tr == routed'.train_states
              te == routed'.test_states
          IN  /\ \A s \in new : InSeq(s, tr) # InSeq(s, te)
              /\ Len(tr) + Len(te) = Cardinality(new)
              /\ \A i \in 1..Len(tr) : tr[i] \in new
              /\ \A i \in 1..Len(te) : te[i] \in new
              /\ \A i, j \in 1..Len(tr) : i < j => tr[i] < tr[j]
              /\ \A i, j \in 1..Len(te) : i < j => te[i] < te[j]
              /\ RowStates(train_dataset') = RowStates(train_dataset) \o tr
              /\ RowStates(test_dataset')
                    = IF test_dataset.none THEN <<>>
                      ELSE RowStates(test_dataset) \o te
      ]_vars

\* C9 witness: a call with two items routed the first to test and the second
\* to train, into a DataHandler that holds a test split
C9_Witness ==
    /\ pc = "ready"
    /\ ~test_dataset.none
    /\ Len(routed.train_states) = 1
    /\ Len(routed.test_states) = 1
    /\ routed.test_states[1] < routed.train_states[1]

\* the states of the rows of a file
FileStates(file) == [i \in 1..Len(file.samples) |-> file.samples[i].readable]

\* the file of a split holds as many rows as the split in memory
FileMatchesMemory ==
    /\ Len(csv["train"].samples) = Len(train_dataset.states)
    /\ Len(csv["test"].samples) = Len(test_dataset.states)

\* every item of the oracle's log is in the train or in the test file
NoItemMissing ==
    \A s \in 1..Len(oracle_log) :
        InSeq(s, FileStates(csv["train"])) \/ InSeq(s, FileStates(csv["test"]))

\* C14: the file of a split is updated by append: after an update_dataset
\* the train file holds its previous rows followed by the rows the call
\* routed to train, the test file likewise; so the file of a split holds as
\* many rows as the split in memory, and no item is missing from both files.
C14_FileAppend ==
    /\ [](pc = "ready" => (FileMatchesMemory /\ NoItemMissing))
    /\ [][UpdateStep =>
            /\ FileStates(csv'["train"])
                  = FileStates(csv["train"]) \o routed'.train_states
            /\ FileStates(csv'["test"])
                  = FileStates(csv["test"]) \o routed'.test_states
         ]_vars

\* initialise_dataset has completed and no update_dataset has run
Initialised == pc = "ready" /\ ~csv["sampled"].exists

\* C17: with split "all_train", initialise_dataset completes with all the
\* initial rows in train, a test split that exists and has length 0, and
\* train statistics computed over the scaled energies.
C17_AllTrain ==
    (Initialised /\ config.split = "all_train" /\ ~config.resume) =>
        /\ Len(train_dataset.states) = Len(oracle_log)
        /\ ~test_dataset.none
        /\ Len(test_dataset.states) = 0
        /\ train_stats = GetStatistics(RowEnergies(train_dataset))

\* floor(n * train_fraction) for the fraction of the configuration
TrainRows(n) ==
    (n * config.train_fraction[1]) \div config.train_fraction[2]

\* C18: with split "random" over N initial rows, initialise_dataset puts
\* floor(N * train_fraction) rows in train and the other rows in test; every
\* initial row is in exactly one split, once, with its own energy.
C18_RandomSplit ==
    (pc # "new" /\ ~csv["sampled"].exists /\ config.split = "random"
        /\ ~config.resume) =>
        LET n == Len(oracle_log)
            tr == RowStates(train_dataset)
            te == RowStates(test_dataset)
        IN  /\ Len(tr) = TrainRows(n)
            /\ Len(te) = n - TrainRows(n)
            /\ \A s \in 1..n :
                  Cardinality({i \in 1..Len(tr) : tr[i] = s})
                    + Cardinality({i \in 1..Len(te) : te[i] = s}) = 1
            /\ Paired(train_dataset, train_stats)
            /\ Paired(test_dataset, test_stats)

\* initialise_dataset stored no dataset and wrote no file
NothingStored ==
    /\ pc = "error"
    /\ train_dataset = NoDataset
    /\ test_dataset = NoDataset
    /\ train_stats = NoStats
    /\ test_stats = NoStats
    /\ \A f \in DOMAIN csv : ~csv[f].exists

\* C19: with split "given" (the split of a resumed run too), when any of the
\* four tensors train_states, train_scores, test_states, test_scores is
\* absent, initialise_dataset raises AssertionError, stores no dataset and
\* writes no file.
C19_GivenAsserts ==
    (init_result.called /\ split = "given" /\ init_result.absent # {}) =>
        /\ init_result.raised.type = "AssertionError"
        /\ NothingStored

\* the split policies initialise_dataset implements
ImplementedSplits == {"random", "all_train", "given"}

\* C20: a DataHandler constructed with a split policy other than "random",
\* "all_train" or "given" fails with a ValueError whose message holds the
\* policy string of the configuration, and has stored no dataset and written
\* no file.
C20_UnknownSplit ==
    (init_result.called /\ config.split \notin ImplementedSplits) =>
        /\ init_result.raised.type = "ValueError"
        /\ \E i \in DOMAIN init_result.raised.message :
              init_result.raised.message[i] = config.split
        /\ NothingStored

(***************************************************************************)
(* Properties of the pure functions (under SpecFn).                        *)
(***************************************************************************)
\* C7: for every energies tensor y, all entries equal included, and
\* s = get_statistics(y), denormalize(normalize(y, s), s) equals y.
C7_RoundTrip ==
    call.fn = "round_trip" =>
        /\ Len(call.ret.v) = Len(call.before.v)
        /\ \A i \in 1..Len(call.before.v) :
              FEq(call.ret.v[i], call.before.v[i])

\* C8: scale_by_target_factor applied twice gives the tensor back entry by
\* entry, a -0.0 coming back as 0.0; the call leaves its argument as it was;
\* None is returned for None.
C8_ScaleTwice ==
    call.fn = "scale_twice" =>
        /\ call.after = call.before
        /\ call.ret.none = call.before.none
        /\ Len(call.ret.v) = Len(call.before.v)
        /\ \A i \in 1..Len(call.before.v) :
              call.ret.v[i] = Canonical(call.before.v[i])

\* C8 witness: the factor is -1 and the tensor holds a -0.0, a 0.0 and a
\* non-zero entry
C8_Witness ==
    /\ call.fn = "scale_twice"
    /\ call.tf = OfInt(-1)
    /\ InSeq(NegZero, call.before.v)
    /\ InSeq(OfInt(0), call.before.v)
    /\ InSeq(OfInt(2), call.before.v)

\* C21: preprocess leaves the dataset dict it is given and the dict's states
\* and energies as they were, and two calls on the same input raise alike or
\* return the same states, energies and statistics, which are the converted
\* states, the energies (normalized if normalize_data) and the statistics of
\* the input's energies.
C21_PreprocessPure ==
    call.fn = "preprocess_twice" =>
        LET pp == call.pp
            input == Deref(pp.mem_before, pp.dataset)
        IN  /\ \A r \in 1..Len(pp.mem_before) :
                  pp.mem_after[r] = pp.mem_before[r]
            /\ pp.raised[1] = pp.raised[2]
            /\ pp.raised[1] = (Len(input.energies) = 0)
            /\ ~pp.raised[1] =>
                  /\ pp.out[1] = pp.out[2]
                  /\ pp.stats[1] = pp.stats[2]
                  /\ pp.out[1] = Preprocess(input, pp.normalize).dataset
                  /\ pp.stats[1] = Preprocess(input, pp.normalize).stats

\* two calls with normalization on energies that normalization changes, with
\* an environment that converts in place
C21_Witness ==
    /\ call.fn = "preprocess_twice"
    /\ call.pp.normalize
    /\ call.pp.inplace
    /\ ~call.pp.raised[1]
    /\ Len(call.before.v) = MaxLen
    /\ call.pp.out[1].energies # call.before.v
    /\ ~HasNaN(call.pp.out[1].energies)

(***************************************************************************)
(* Properties of the proxies (under SpecProxy).                            *)
(***************************************************************************)
\* C10: every score a proxy returns was computed after reloading the
\* checkpoint, with the weights of the "final" checkpoint that is on disk for
\* the current round at the moment of the call
C10_ReloadBeforeScore ==
    scored.made => (scored.loaded /\ scored.model = scored.persisted)

\* C11: load_model looks up the "final" checkpoint of the logger's current
\* context; when that file is absent the call raises FileNotFoundError and
\* leaves no weights of any checkpoint in memory, and no proxy returns a
\* score while the checkpoint of the current round is absent.
C11_NotFound ==
    /\ last_load.called =>
          /\ last_load.path = <<last_load.context, 0>>
          /\ ~last_load.found =>
                /\ last_load.raised = "FileNotFoundError"
                /\ last_load.model > 0
    /\ scored.made => scored.persisted # 0

\* C12: every checkpoint on disk holds the state of the model and of the
\* optimizer under their keys, and after a fit() that ran epochs, load_model
\* for the same context restores the weights and the optimizer state fit
\* ended with.
C12_SaveLoadRoundTrip ==
    /\ \A p \in Paths : disk[p].exists => disk[p].keyed
    /\ (last_fit.called /\ regressor.max_epochs > 0) =>
          /\ last_fit.raised = "none"
          /\ last_fit.reload.raised = "none"
          /\ last_fit.reload.model = last_fit.model
          /\ last_fit.reload.optimizer = last_fit.optimizer

FromInit(w, n) == w > 0 /\ (w - (n + 1)) % WeightStride = 0

\* C16: every fit() of an AL round is called on a regressor constructed in
\* that round, and the weights and the optimizer state it works on come
\* from an initialisation of its own: none of an earlier round, fit or
\* load_model.
C16_NoWarmStart ==
    last_fit.called =>
        /\ last_fit.born = last_fit.iter
        /\ FromInit(last_fit.model, last_fit.inits_before)
        /\ FromInit(last_fit.optimizer, last_fit.inits_before)

\* C16 witness: a fit in the second round of a run, whose first round had
\* fitted a regressor of its own
C16_Witness ==
    /\ last_fit.called
    /\ last_fit.iter = 2
    /\ last_fit.inits_before >= 1
    /\ al.pc = "fitted"

(***************************************************************************)
(* Properties of the AL round (under SpecRound).                           *)
(***************************************************************************)
\* the sequences of a round are as long as its states, sample i is that of
\* state i, energy i what the oracle returned for state i, fidelity i the
\* fidelity state i was queried at
RoundAligned(states, samples, energies, fidelity) ==
    /\ Len(samples) = Len(states)
    /\ Len(energies) = Len(states)
    /\ ~fidelity.none => Len(fidelity.v) = Len(states)
    /\ \A i \in 1..Len(states) :
          /\ i <= Len(samples) => samples[i] = StateToOracle(states[i])
          /\ i <= Len(energies) => energies[i] = al.oracle_energy[states[i]]
          /\ (~fidelity.none /\ i <= Len(fidelity.v)) =>
                fidelity.v[i] = al.fidelity[states[i]]

\* C15: for every oracle, after the oracle call of a round no NaN is among
\* the energies handed to update_dataset or among the cumulative energies,
\* and the picked states, samples, energies and fidelities are equally long
\* and aligned by index.
C15_NaNFiltered ==
    /\ al.pc = "queried" =>
          /\ ~HasNaN(al.picked_energies)
          /\ ~HasNaN(al.energies_for_evaluation)
          /\ RoundAligned(al.picked_states, al.picked_samples,
                          al.picked_energies, al.picked_fidelity)
    /\ ~HasNaN(al.cumulative_sampled_energies)
    /\ Len(al.cumulative_sampled_samples) = Len(al.cumulative_sampled_states)
    /\ Len(al.cumulative_sampled_energies) = Len(al.cumulative_sampled_states)
    /\ al.n_fid > 1 =>
          Len(al.cumulative_sampled_fidelities)
              = Len(al.cumulative_sampled_states)

(***************************************************************************)
(* Properties of the data loaders (under SpecLoader).                      *)
(***************************************************************************)
\* the rows of a sequence of batches, in the order given
RECURSIVE Flatten(_)
Flatten(batches) ==
    IF Len(batches) = 0 THEN <<>>
    ELSE Head(batches) \o Flatten(Tail(batches))

\* C22: for every configuration of the dataloader, the test loader gives its
\* batches in the index order of the test dataset.
C22_TestNeverShuffled ==
    call.loaders.iterated =>
        Flatten(call.loaders.test_batches)
            = [i \in 1..Len(test_dataset.states) |-> i]

(***************************************************************************)
(* Properties of the convergence of fit (under SpecConv).                  *)
(***************************************************************************)
\* errs decreases strictly up to some epoch and is constant from it on
DecreasingThenFlat(errs) ==
    \E k \in 1..Len(errs) :
        /\ \A i \in 1..(k - 1) : PyLess(errs[i + 1], errs[i])
        /\ \A i \in k..Len(errs) : errs[i] = errs[k]

\* the flatness criterion holds on the errors recorded up to epoch
FlatAt(errs, history, eps, epoch) ==
    /\ epoch > history
    /\ TestLossFlat(SubSeq(errs, 1, epoch), history, eps)

\* epoch is the first at which the flatness criterion holds
FirstFlat(errs, history, eps, epoch) ==
    /\ FlatAt(errs, history, eps, epoch)
    /\ \A e \in 1..(epoch - 1) : ~FlatAt(errs, history, eps, e)

\* C23: when the held-out errors decrease and then stay flat, and the
\* flatness criterion first holds at an epoch before max_epochs, fit ends
\* with converged = 1 at that epoch; no check is made before `history`
\* epochs.
C23_ConvergesAtFirstFlat ==
    (/\ last_fit.called
     /\ regressor.history >= 1
     /\ DecreasingThenFlat(last_fit.errs)
     /\ \E epoch \in 1..(regressor.max_epochs - 1) :
           FirstFlat(last_fit.errs, regressor.history, regressor.eps, epoch))
    => /\ last_fit.raised = "none"
       /\ regressor.converged = 1
       /\ FirstFlat(last_fit.errs, regressor.history, regressor.eps,
                    last_fit.epoch)
       /\ \A i \in 1..Len(last_fit.checks) :
             last_fit.checks[i].epoch >= regressor.history

\* the final checkpoints fit saved
FinalSaves(saves) == {i \in 1..Len(saves) : saves[i].final}

\* C24: every fit of a regressor with 1 <= history <= max_epochs ends
\* without an exception after at most max_epochs epochs, with converged = 1
\* and exactly one final checkpoint saved.
C24_FitTerminatesConverged ==
    (last_fit.called /\ regressor.history >= 1) =>
        /\ last_fit.raised = "none"
        /\ last_fit.epoch <= regressor.max_epochs
        /\ regressor.converged = 1
        /\ Cardinality(FinalSaves(last_fit.saves)) = 1

\* each of the last `history` errors of hist is greater than the one before
StrictlyIncreasing(hist, history) ==
    /\ Len(hist) > history
    /\ \A i \in (Len(hist) - history + 1)..Len(hist) :
          PyLess(hist[i - 1], hist[i])

\* C25: the first test of check_convergence holds exactly when each of the
\* last `history` held-out errors is strictly greater than the one before.
C25_IncreasingCriterion ==
    (/\ call.fn = "check_convergence"
     /\ call.conv.raised = "none"
     /\ regressor.history >= 1
     /\ call.conv.epoch > regressor.history)
    => ("increasing" \in call.conv.fired
          <=> StrictlyIncreasing(regressor.err_test_hist, regressor.history))

\* C26: every epoch fit entered has its checkpoint on disk, saved before
\* that epoch's training: the checkpoint of epoch k holds the model after
\* k - 1 training passes, so the checkpoint of epoch 1 holds the untrained
\* model, for every checkpoint period.
C26_CheckpointBeforeTraining ==
    (last_fit.called /\ regressor.max_epochs >= 1) =>
        /\ last_fit.epoch >= 1
        /\ \A k \in 1..last_fit.epoch :
              LET ckpt == disk[CkptPath(logger, k)]
              IN  /\ ckpt.exists
                  /\ ckpt.model = (last_fit.inits_before + 1)
                                    + (k - 1) * WeightStride

(***************************************************************************)
(* Properties of the AL loop (under SpecLoop).                             *)
(***************************************************************************)
\* the steps of a round, in the order of the claim
RoundOrder ==
    <<"fit", "proxy", "train", "sample", "score_pick", "oracle",
      "update_dataset">>

\* C27: no round of the AL loop is cut short by an exception; a round that
\* reaches its end has run fit, proxy construction, sampler train and
\* sample, scoring and picking, the oracle and update_dataset, each once and
\* in this order; update_dataset was handed the candidates the oracle
\* evaluated in the round; and the fit of a round saw the DataHandler's
\* train and test data as the last update_dataset left them.
C27_RoundOrder ==
    al.in_loop =>
        /\ al.pc # "raised"
        /\ al.pc = "end" =>
              /\ al.steps = RoundOrder
              /\ al.updated_with = al.picked_states
        /\ (al.pc = "fitted" /\ al.steps = <<"fit">>) => al.fit_saw = al.left

\* C30: a round of the AL loop starts exactly when cumulative_cost < BUDGET
\* and the loop is left exactly when cumulative_cost >= BUDGET;
\* cumulative_cost never decreases, and every round that runs to iter += 1
\* has made it strictly larger than it was at the round's loop test.
C30_CostStrictlyIncreases ==
    al.in_loop =>
        /\ al.pc = "start" => al.cumulative_cost < al.budget
        /\ al.pc = "done" => al.cumulative_cost >= al.budget
        /\ al.cumulative_cost >= al.cost_before
        /\ (al.pc = "while" /\ al.iter > 1) =>
              al.cumulative_cost > al.cost_before

(***************************************************************************)
(* Properties of SingleTaskSVGP.fit (under SpecSvgp).                      *)
(***************************************************************************)
\* the evaluations of a fit with the lowest held-out NLL
LowestNll(evals) ==
    {i \in 1..Len(evals) : \A j \in 1..Len(evals) : evals[i].nll <= evals[j].nll}

\* C28: fit raises no exception, whatever early_stopping, num_epochs and
\* eval_period are; when it has returned the surrogate is in evaluation
\* mode without gradients, its caches are cleared, the train data is
\* registered and best_score and best_loss are recorded; with early stopping
\* the weights are those of an evaluation (the one before training or one of
\* an epoch) with the lowest held-out NLL.
C28_SvgpFitCompletes ==
    /\ call.svgp.pc # "raised"
    /\ call.svgp.pc = "done" =>
          /\ call.svgp.mode = "eval"
          /\ ~call.svgp.requires_grad
          /\ call.svgp.cache = "clear"
          /\ call.svgp.train_data
          /\ ~call.svgp.attr_best_score.none
          /\ ~call.svgp.attr_best_loss.none
          /\ call.svgp.early_stopping =>
                \E i \in LowestNll(call.svgp.evals) :
                    call.svgp.evals[i].weights = call.svgp.weights

\* the epochs of the loop run so far that are multiples of eval_period
EvalEpochs == {e \in 1..call.svgp.epoch_idx : e % call.svgp.eval_period = 0}

\* the elements of a sequence
Range(seq) == {seq[i] : i \in 1..Len(seq)}

\* the held-out NLLs of the evaluations made in the loop
LoopNlls ==
    [i \in 1..(Len(call.svgp.evals) - 1) |-> call.svgp.evals[i + 1].nll]

\* the last evaluation of the loop that was better than all before it
LastImproved(nlls) ==
    CHOOSE i \in 1..Len(nlls) :
        /\ \A j \in 1..(i - 1) : nlls[i] < nlls[j]
        /\ \A k \in (i + 1)..Len(nlls) : \E j \in 1..(k - 1) : nlls[k] >= nlls[j]

\* `patience` evaluations in a row have not improved the best held-out NLL
PatienceSpent ==
    /\ Len(LoopNlls) >= 1
    /\ Len(LoopNlls) - LastImproved(LoopNlls) >= call.svgp.patience

====
